---------------------------- MODULE Spec2Model ----------------------------
(***************************************************************************)
(* GD32CAN: the interrupt-driven ring-buffer transport of the CAN driver   *)
(* (GD32CAN.cpp / GD32CAN.h).  One controller object bound to one physical *)
(* CAN instance, the application context calling begin()/write()/read(),   *)
(* the TX and RX interrupt handlers, and the peripheral (three transmit    *)
(* mailboxes, the receive FIFO 0, the interrupt enable bits).              *)
(*                                                                         *)
(* The application runs one call at a time; a call is cut into steps at    *)
(* the places where an interrupt can observe a different state.  The two   *)
(* handlers have the same pre-emption priority, so a handler runs to its   *)
(* end before anything else of the program runs: it is one step.           *)
(***************************************************************************)
EXTENDS Integers, Sequences, FiniteSets

(***************************************************************************)
(* Bounds of the model.                                                    *)
(***************************************************************************)
MaxSize   == 3      \* largest ring capacity constructed
MaxWrites == 5      \* write() calls in one behaviour
MaxFrames == 4      \* frames arriving from the bus in one behaviour
MaxFifo   == 2      \* frames the hardware receive FIFO holds
MaxMsgId  == 2      \* distinct messages pushed into the ring on its own
MaxObjs   == 2      \* controller objects alive at a time
MaxCalls  == 4      \* lifecycle and filter calls in one behaviour

(***************************************************************************)
(* Program constants.                                                      *)
(***************************************************************************)
HW_MAX_BAUDRATE == 1000000
NUM_MAILBOXES   == 3

\* Capacities a controller is constructed with: 0 (no software queue, what
\* the one- and two-argument constructors pass for TX) and 2..MaxSize.
RingSizes == {0} \cup (2..MaxSize)

\* A message is identified by its id; id 0 is the value-initialised
\* message_t of a fresh backing array.
ZeroMsg == 0

NULL == << >>

(***************************************************************************)
(* Ring buffer (free functions of GD32CAN.cpp).  ring.buffer is the        *)
(* backing array, indexed 0 .. size-1 (stored from position 1 of a         *)
(* sequence); NULL is the null pointer of an unallocated ring.             *)
(***************************************************************************)

\* new CAN::message_t[size], or nullptr for size 0
NewBuffer(size) == [i \in 1..size |-> ZeroMsg]

\* a % b of unsigned operands.  b = 0 is undefined behaviour in C++; the
\* model records the evaluation in ringFault (see ModFault) and continues
\* with the dividend, the remainder a UDIV yielding 0 leaves.
Mod(a, b) == IF b = 0 THEN a ELSE a % b

ModFault(ring) == ring.size = 0

initRingBuffer(buffer, size) ==
    [head |-> 0, tail |-> 0, size |-> size, buffer |-> buffer]

isRingBufferEmpty(ring) == ring.head = ring.tail

isRingBufferFullAtSize(ring) == ring.head - ring.tail = ring.size

isRingBufferFull(ring) == Mod(ring.head + 1, ring.size) = ring.tail

\* the count without the correction of a negative difference
ringBufferCountNoWrap(ring) == ring.head - ring.tail

ringBufferCount(ring) ==
    LET entries == ring.head - ring.tail
    IN  IF entries < 0 THEN entries + ring.size ELSE entries

\* the slot the next push advances head to
NextEntry(ring) == Mod(ring.head + 1, ring.size)

\* memcpy(&ring.buffer[ring.head], &message); ring.head = nextEntry
StoreAtHead(ring, message) ==
    [ring EXCEPT !.buffer[ring.head + 1] = message, !.head = NextEntry(ring)]

\* [ok |-> the return value, ring |-> the ring afterwards]
addToRingBufferNoCheck(ring, message) ==
    [ok |-> TRUE, ring |-> StoreAtHead(ring, message)]

addToRingBuffer(ring, message) ==
    LET nextEntry == NextEntry(ring)
        result    == nextEntry # ring.tail
    IN  [ok   |-> result,
         ring |-> IF result THEN StoreAtHead(ring, message) ELSE ring]

\* [ok |-> the return value, message |-> the copy of the front element]
readFromRingBufferNewest(ring) ==
    LET result == ~isRingBufferEmpty(ring)
        newest == Mod(ring.head + ring.size - 1, ring.size)
    IN  [ok      |-> result,
         message |-> IF result THEN ring.buffer[newest + 1] ELSE ZeroMsg]

readFromRingBuffer(ring) ==
    LET result == ~isRingBufferEmpty(ring)
    IN  [ok      |-> result,
         message |-> IF result THEN ring.buffer[ring.tail + 1] ELSE ZeroMsg]

removeFromRingBufferStuck(ring) == ring

removeFromRingBuffer(ring) ==
    IF ~isRingBufferEmpty(ring)
    THEN [ring EXCEPT !.tail = Mod(ring.tail + 1, ring.size)]
    ELSE ring

\* The messages a ring holds, oldest first (tail to head).
RECURSIVE RingFrom(_, _)
RingFrom(ring, i) ==
    IF i = ring.head THEN << >>
    ELSE << ring.buffer[i + 1] >> \o RingFrom(ring, Mod(i + 1, ring.size))

RingContents(ring) == RingFrom(ring, ring.tail)

(***************************************************************************)
(* Bit timing (GD32CAN::calculateCANBTValues), in uint32_t arithmetic.     *)
(***************************************************************************)
\* Every value of a successful search fits 31 bits (the clock is below 2^31,
\* timeQuanta is in 8..18), so the unsigned operations never wrap; the
\* difference (int32_t)(samplePoint - PERCENT_POINT) is the signed one.
Abs(x) == IF x < 0 THEN -x ELSE x

MULTIPLIER     == 1000000
PERCENT_POINT  == 875000
FREQ_MAX_DELTA == 1000
BASE_QUANTA    == 16

\* the inner loop with 16 + offset tried at every offset
RECURSIVE SearchQuantaWide(_, _, _)
SearchQuantaWide(clockFreq, baudrate, offset) ==
    IF offset > 8 THEN 0
    ELSE IF (clockFreq % (baudrate * (BASE_QUANTA + offset))) = 0
         THEN BASE_QUANTA + offset
         ELSE IF (clockFreq % (baudrate * (BASE_QUANTA - offset))) = 0
              THEN BASE_QUANTA - offset
              ELSE SearchQuantaWide(clockFreq, baudrate, offset + 1)

\* The inner while loop: the first offset 0..8 at which 16 - offset, or
\* 16 + offset for offset <= 2, divides the clock; 0 when there is none.
RECURSIVE SearchQuanta(_, _, _)
SearchQuanta(clockFreq, baudrate, offset) ==
    IF offset > 8 THEN 0
    ELSE LET quantaDown == (clockFreq % (baudrate * (BASE_QUANTA - offset))) = 0
             quantaUp   == /\ offset <= 2
                           /\ (clockFreq % (baudrate * (BASE_QUANTA + offset))) = 0
         IN  IF quantaDown THEN BASE_QUANTA - offset
             ELSE IF quantaUp THEN BASE_QUANTA + offset
             ELSE SearchQuanta(clockFreq, baudrate, offset + 1)

\* The outer while loop: lowers the clock by 1 Hz while nothing divides and
\* freqDelta <= FREQ_MAX_DELTA.  The loop stops at the first (smallest)
\* delta at which the inner loop finds a quantum count; when there is none
\* every one of the remaining iterations has decremented clockFreq.
SearchFreq(clockFreq, baudrate, freqDelta) ==
    LET found == { delta \in freqDelta .. FREQ_MAX_DELTA :
                     SearchQuanta(clockFreq - (delta - freqDelta), baudrate, 0) # 0 }
    IN  IF found = {}
        THEN [result |-> FALSE, timeQuanta |-> 0,
              clockFreq |-> clockFreq - (FREQ_MAX_DELTA + 1 - freqDelta)]
        ELSE LET delta == CHOOSE d \in found : \A e \in found : d <= e
                 lowered == clockFreq - (delta - freqDelta)
             IN  [result |-> TRUE, timeQuanta |-> SearchQuanta(lowered, baudrate, 0),
                  clockFreq |-> lowered]

\* phase segment 1 with the synchronisation quantum not taken off
TempBs1NoSync(timeQuanta) == PERCENT_POINT * timeQuanta

\* The phase segment 1 value in millionths of a quantum, before and after
\* the one-quantum nudge toward the 87.5 % sample point.
TempBs1(timeQuanta) ==
    LET tempBs1 == (PERCENT_POINT * timeQuanta) - MULTIPLIER
    IN  IF (tempBs1 \div MULTIPLIER) <= 15
        THEN LET samplePointA == (MULTIPLIER + tempBs1) \div timeQuanta
                 samplePointB == (2 * MULTIPLIER + tempBs1) \div timeQuanta
             IN  IF Abs(samplePointB - PERCENT_POINT) < Abs(samplePointA - PERCENT_POINT)
                 THEN tempBs1 + MULTIPLIER
                 ELSE tempBs1
        ELSE tempBs1

\* [result, and on success the register values].  divZero: the search
\* found no quantum count and line 729 divides by baudrate * 0.
calculateCANBTValues(baudrate, apb1) ==
    IF baudrate <= HW_MAX_BAUDRATE
    THEN LET s == SearchFreq(apb1, baudrate, 0)
         IN  IF s.timeQuanta = 0
             THEN [result |-> FALSE, divZero |-> TRUE, timeQuanta |-> 0,
                   baudpsc |-> 0, bs1 |-> 0, bs2 |-> 0, sjw |-> 0]
             ELSE LET bs1 == ((TempBs1(s.timeQuanta) \div MULTIPLIER) - 1) % 256
                  IN  [result |-> s.result, divZero |-> FALSE,
                       timeQuanta |-> s.timeQuanta,
                       baudpsc |-> (s.clockFreq \div (baudrate * s.timeQuanta)) % 65536,
                       bs1 |-> bs1,
                       bs2 |-> (s.timeQuanta - bs1 - 3) % 256,
                       sjw |-> 0]
    ELSE [result |-> FALSE, divZero |-> FALSE, timeQuanta |-> 0,
          baudpsc |-> 0, bs1 |-> 0, bs2 |-> 0, sjw |-> 0]

(***************************************************************************)
(* State.                                                                  *)
(***************************************************************************)
VARIABLES
    \* the controller object and the globals it is bound to
    isInitialized,  \* _isInitialized
    txRing,         \* _txRing, reached by the TX handler through CAN::canNTxRing
    rxRing,         \* _rxRing, reached by the RX handler through CAN::canNRxRing
    rxIrqEnabled,   \* CAN::canNrxIrqEnabled, *_rxIrqEnabled
    \* the peripheral
    nvicOn,         \* the RX0 and TX interrupt lines are enabled in the NVIC
    hwOn,           \* can_init succeeded: the peripheral takes part in the bus
    tmeIE,          \* CAN_INT_TME enable bit
    rfneIE,         \* CAN_INT_RFNE0 enable bit
    mtf,            \* a CAN_TSTAT_MTFx flag is set (a transmission finished)
    mbFree,         \* empty transmit mailboxes
    hwFifo,         \* frames pending in receive FIFO 0, oldest first
    hwCfg,          \* the working mode, the CAN_BT timing fields and the
                    \* level of the transceiver sleep pin
    transceiverSleepPin,    \* _transceiverSleepPin
    \* the application context
    pc,             \* where the current call stands; "idle" between calls
    arg,            \* the message of the current write()/read()
    res,            \* the local `result` of the current call
    snap,           \* what the current write() found when it was called
    quiet,          \* nothing else ran since the current call began
    \* history
    ret,            \* the last call that returned and what it returned
    accepted,       \* messages for which write() returned true, in call order
    hwSent,         \* messages handed to a transmit mailbox, in hand-over order
    rxTaken,        \* frames the RX handler took out of the FIFO, in order
    delivered,      \* messages successful read() calls returned, in order
    nWrites,        \* write() calls so far
    nArrived,       \* frames that arrived from the bus so far
    txDrained,      \* the TX ring went from non-empty to empty and nothing
                    \* was enqueued (nor the hardware re-initialised) since
    rxStalled,      \* the RX handler found the ring full since the last read()
    ringFault,      \* a modulo by a zero ring capacity was evaluated
    \* a ring buffer on its own, driven through its operations directly
    ringBuf,        \* the ringBuffer_t
    queue,          \* the messages pushed and not yet popped, oldest first
    rop,            \* the last ring operation and what it returned
    \* controller objects over their lifetimes, and the filter banks
    objs,           \* per object: live, _device, _isInstanceAllowed,
                    \* _isInitialized, _filtersStates, _firstFilterId
    instances,      \* GD32CAN::instances, the set of the masks that are set
    can1StartFilterId,  \* GD32CAN::can1StartFilterId
    filt,           \* the filter banks: what each is programmed with (cfg)
                    \* and the banks CAN_FW enables, per filter block (fw)
    lret,           \* the last lifecycle or filter call and what it returned
    nCalls,         \* lifecycle and filter calls made so far
    btIn,           \* the clock and bit rate handed to calculateCANBTValues
    btOut           \* what calculateCANBTValues returned for btIn

ctlVars == << isInitialized, txRing, rxRing, rxIrqEnabled, nvicOn, hwOn, tmeIE,
              rfneIE, mtf, mbFree, hwFifo, hwCfg, transceiverSleepPin,
              pc, arg, res, snap, quiet, ret,
              accepted, hwSent, rxTaken, delivered, nWrites, nArrived,
              txDrained, rxStalled, ringFault >>

ringVars == << ringBuf, queue, rop >>

lifeVars == << objs, instances, can1StartFilterId, filt, lret, nCalls >>

solVars == << btIn, btOut >>

vars == << ctlVars, ringVars, lifeVars, solVars >>

objVars  == << isInitialized, txRing, rxRing, rxIrqEnabled >>
txHwVars == << tmeIE, mtf, mbFree >>
rxHwVars == << rfneIE, hwFifo >>
histVars == << accepted, hwSent, rxTaken, delivered, nWrites, nArrived,
               txDrained, rxStalled, ringFault >>

cfgVars  == << hwCfg, transceiverSleepPin >>

NoSnap == [called |-> FALSE]

\* Bit rates begin() is called with: one the solver accepts, one above the
\* hardware maximum.
BeginRates == {500000, 1000001}

\* rcu_clock_freq_get(CK_APB1)
Apb1Clock == 8 * MULTIPLIER

\* Bit rates setBaudrate() is called with: one the solver accepts, one above
\* the hardware maximum.
SetRates == {250000, 1000001}

\* what calculateCANBTValues gives for each of these bit rates
TimingOf == [baudrate \in BeginRates \cup SetRates |->
               calculateCANBTValues(baudrate, Apb1Clock)]

NO_PIN == 255

\* the pin attachTransceiverSleepPin() is called with
SleepPins == {7}

WorkingModes == {"INITIALIZE", "NORMAL", "SLEEP"}

CAN_BAUDPSC_MASK == 1023

\* the timing fields of CAN_BT after a reset of the peripheral
BtReset == [bs1 |-> 0, bs2 |-> 0, sjw |-> 0, baudpsc |-> 0]

\* the timing fields can_init and setBaudrate write for the solver's values
BtOf(timing) ==
    [bs1 |-> timing.bs1, bs2 |-> timing.bs2, sjw |-> timing.sjw % 32,
     baudpsc |-> timing.baudpsc % (CAN_BAUDPSC_MASK + 1)]

\* calculateCANBTRegValue: the fields of the register value, all zero when
\* the solver fails
calculateCANBTRegValue(baudrate) ==
    LET timing == TimingOf[baudrate]
    IN  IF timing.result THEN BtOf(timing) ELSE BtReset

\* the peripheral after a reset, the sleep pin not driven
HwCfgReset == [mode |-> "SLEEP", bt |-> BtReset, pinLevel |-> "INPUT"]

(***************************************************************************)
(* Controller objects, instance ownership and the filter banks (a build    *)
(* with CAN0, CAN1 and CAN2: 28 filter banks, 15 of them for CAN2).        *)
(***************************************************************************)
Objs == 1..MaxObjs

Devices == {"CAN_0_DEFAULT", "CAN_0_ALT1", "CAN_1_DEFAULT", "CAN_1_ALT1",
            "CAN_2_DEFAULT"}

Can0Devices == {"CAN_0_DEFAULT", "CAN_0_ALT1"}
Can1Devices == {"CAN_1_DEFAULT", "CAN_1_ALT1"}
Can2Devices == {"CAN_2_DEFAULT"}

INSTANCES_MASK_CAN0 == 1
INSTANCES_MASK_CAN1 == 2
INSTANCES_MASK_CAN2 == 4

MIN_BANK == 0
MAX_BANK == 27
MAX_BANK_CAN2 == 14
DEFAULT_CAN1_START_FILTER_ID == 14
CAN1_START_UNSET == -1

Banks == MIN_BANK..MAX_BANK

\* the filter banks the calls are made with: the first bank, the default
\* first bank of CAN1 (the last of CAN2) and the last bank
FilterIds == {0, 14, 27}

\* the switch of GD32CAN::init: _instance_mask
InstanceMask(device) ==
    IF device \in Can1Devices THEN INSTANCES_MASK_CAN1
    ELSE IF device \in Can2Devices THEN INSTANCES_MASK_CAN2
    ELSE INSTANCES_MASK_CAN0

\* the members of an object that does not exist; configured is history:
\* the slots a public setFilter or allowReceiveAllMessages call of the
\* object has programmed since its construction
NoObject ==
    [live |-> FALSE, device |-> "CAN_0_DEFAULT", allowed |-> FALSE,
     initialized |-> FALSE, filtersStates |-> {}, firstFilterId |-> MIN_BANK,
     configured |-> {}, irqBound |-> FALSE]

\* the filter registers after a reset of the peripheral: no bank
\* programmed, none enabled (fw), the filter lock disabled (fld, the FLD bit
\* of CAN_FCTL is set), the first bank of CAN1 (split, the HBC1F field of
\* CAN_FCTL) at its reset value
FiltersReset ==
    [cfg   |-> [b \in Banks |-> "reset"],
     fw    |-> [blk \in {"CAN0", "CAN2"} |-> {}],
     fld   |-> [blk \in {"CAN0", "CAN2"} |-> TRUE],
     split |-> DEFAULT_CAN1_START_FILTER_ID]

NoLret == [op |-> "none", obj |-> 0, result |-> FALSE, slot |-> -1]

\* no controller object has been constructed
NoObjects ==
    /\ objs = [o \in Objs |-> NoObject]
    /\ instances = {}
    /\ can1StartFilterId = CAN1_START_UNSET
    /\ filt = FiltersReset
    /\ lret = NoLret
    /\ nCalls = 0

getMaxFilterId(device, can1Start) ==
    IF device \in Can0Devices
    THEN (IF can1Start >= 0 THEN can1Start - 1 ELSE MAX_BANK)
    ELSE IF device \in Can2Devices THEN MAX_BANK_CAN2
    ELSE MAX_BANK

isFilterAvailableNoMax(obj, filterId, can1Start) ==
    /\ obj.allowed
    /\ filterId >= obj.firstFilterId

isFilterAvailable(obj, filterId, can1Start) ==
    /\ obj.allowed
    /\ filterId >= obj.firstFilterId
    /\ filterId <= getMaxFilterId(obj.device, can1Start)

\* can_filter_init(&filter): programs the bank and sets or clears its bit
\* in CAN_FW according to filter_enable, and leaves the filter lock enabled
can_filter_init(f, filterId, how, state) ==
    [cfg |-> [f.cfg EXCEPT ![filterId] = how],
     fw  |-> [f.fw EXCEPT !["CAN0"] = IF state = "ENABLE"
                                      THEN @ \cup {filterId}
                                      ELSE @ \ {filterId}],
     fld |-> [f.fld EXCEPT !["CAN0"] = FALSE],
     split |-> f.split]

\* the protected setFilter: [result, obj, filt] afterwards
setFilter(obj, f, can1Start, filterId, how, state) ==
    IF isFilterAvailable(obj, filterId, can1Start)
    THEN [result |-> TRUE,
          obj    |-> [obj EXCEPT !.filtersStates = @ \cup {filterId}],
          filt   |-> can_filter_init(f, filterId, how, state)]
    ELSE [result |-> FALSE, obj |-> obj, filt |-> f]

\* the filter block setFilterState writes CAN_FW of
FilterBlock(device) == IF device \in Can2Devices THEN "CAN2" ELSE "CAN0"

\* what the DISABLE branch of setFilterState leaves of CAN_FW
FwAfterDisableToggled(fw, filterId) ==
    IF filterId \in fw THEN fw \ {filterId} ELSE fw \cup {filterId}

FwAfterDisable(fw, filterId) == fw \ {filterId}

\* setFilterState: [result, filt] afterwards; the filter lock is disabled
\* for the write and enabled again
setFilterState(obj, f, can1Start, filterId, state) ==
    IF isFilterAvailable(obj, filterId, can1Start)
    THEN LET blk == FilterBlock(obj.device)
             fw  == IF state = "ENABLE"
                    THEN (IF filterId \in obj.filtersStates
                          THEN f.fw[blk] \cup {filterId}
                          ELSE f.fw[blk])
                    ELSE FwAfterDisable(f.fw[blk], filterId)
         IN  [result |-> TRUE,
              filt   |-> [f EXCEPT !.fw[blk] = fw, !.fld[blk] = FALSE]]
    ELSE [result |-> FALSE, filt |-> f]

\* the loop of clearAllFilters from idx to maxFilterId: [obj, filt] afterwards
RECURSIVE ClearFrom(_, _, _, _, _)
ClearFrom(obj, f, can1Start, idx, maxFilterId) ==
    IF idx > maxFilterId THEN [obj |-> obj, filt |-> f]
    ELSE LET r == setFilter(obj, f, can1Start, idx, "clear", "DISABLE")
         IN  ClearFrom(r.obj, r.filt, can1Start, idx + 1, maxFilterId)

clearAllFiltersEveryBank(obj, f, can1Start) ==
    IF obj.allowed
    THEN [result |-> TRUE,
          obj    |-> [obj EXCEPT !.filtersStates = Banks],
          filt   |-> [f EXCEPT !.cfg = [b \in Banks |-> "clear"],
                               !.fw["CAN0"] = {}, !.fld["CAN0"] = FALSE]]
    ELSE [result |-> FALSE, obj |-> obj, filt |-> f]

\* clearAllFilters: [result, obj, filt] afterwards
clearAllFilters(obj, f, can1Start) ==
    LET maxFilterId == getMaxFilterId(obj.device, can1Start)
        r == ClearFrom(obj, f, can1Start, obj.firstFilterId, maxFilterId)
    IN  IF obj.allowed /\ obj.firstFilterId >= 0 /\ maxFilterId >= 0
        THEN [result |-> TRUE, obj |-> r.obj, filt |-> r.filt]
        ELSE [result |-> obj.allowed, obj |-> obj, filt |-> f]

\* can1_filter_start_bank: writes the first bank of CAN1
can1_filter_start_bank(f, filterId) ==
    [f EXCEPT !.split = filterId, !.fld["CAN0"] = FALSE]

\* canDeinit: the reset of the peripheral.  The banks of CAN0 and CAN1 are
\* registers of CAN0, those of CAN2 its own.
canDeinit(f, device) ==
    IF device \in Can0Devices
    THEN [cfg |-> FiltersReset.cfg, fw |-> [f.fw EXCEPT !["CAN0"] = {}],
          fld |-> [f.fld EXCEPT !["CAN0"] = TRUE],
          split |-> FiltersReset.split]
    ELSE IF device \in Can2Devices
    THEN [f EXCEPT !.fw["CAN2"] = {}, !.fld["CAN2"] = TRUE]
    ELSE f

(***************************************************************************)
(* GD32CAN::init, called by the constructors: the first controller built   *)
(* for its instance (_isInstanceAllowed is true), any RX and TX capacity.  *)
(***************************************************************************)
isInstanceAllowed == TRUE

NoRop == [op |-> "none", ok |-> FALSE, msg |-> ZeroMsg, was |-> << >>,
          fault |-> FALSE]

\* the ring of the ring-only specification, unused by the controller
RingUnused ==
    /\ ringBuf = initRingBuffer(NULL, 0)
    /\ queue = << >>
    /\ rop = NoRop

\* calculateCANBTValues as the specification of the solver alone draws its
\* inputs and records its result; unused by the other specifications
NoBtIn  == [apb1 |-> 0, baudrate |-> 0]
NoBtOut == [done |-> FALSE, result |-> FALSE, divZero |-> FALSE, fault |-> FALSE,
            timeQuanta |-> 0, baudpsc |-> 0, bs1 |-> 0, bs2 |-> 0, sjw |-> 0]

SolverUnused ==
    /\ btIn = NoBtIn
    /\ btOut = NoBtOut

\* the controller state right after construction, for given capacities
Constructed(rxQueueSize, txQueueSize) ==
    /\ rxRing = initRingBuffer(NewBuffer(rxQueueSize), rxQueueSize)
    /\ txRing = initRingBuffer(NewBuffer(txQueueSize), txQueueSize)
    /\ isInitialized = FALSE
    /\ rxIrqEnabled = FALSE
    /\ nvicOn = FALSE /\ hwOn = FALSE
    /\ tmeIE = FALSE /\ rfneIE = FALSE
    /\ mtf = FALSE /\ mbFree = NUM_MAILBOXES /\ hwFifo = << >>
    /\ hwCfg = HwCfgReset /\ transceiverSleepPin = NO_PIN
    /\ pc = "idle" /\ arg = ZeroMsg /\ res = FALSE
    /\ snap = NoSnap /\ quiet = TRUE
    /\ ret = [op |-> "none", result |-> FALSE, msg |-> ZeroMsg]
    /\ accepted = << >> /\ hwSent = << >>
    /\ rxTaken = << >> /\ delivered = << >>
    /\ nWrites = 0 /\ nArrived = 0
    /\ txDrained = FALSE /\ rxStalled = FALSE /\ ringFault = FALSE

Init ==
    /\ \E rxQueueSize \in RingSizes, txQueueSize \in RingSizes :
          Constructed(rxQueueSize, txQueueSize)
    /\ RingUnused
    /\ NoObjects
    /\ SolverUnused

\* A call returns: back to "idle", its locals are dead.
Return(op, result, msg) ==
    /\ pc' = "idle"
    /\ ret' = [op |-> op, result |-> result, msg |-> msg]
    /\ arg' = ZeroMsg /\ res' = FALSE
    /\ snap' = NoSnap /\ quiet' = TRUE

\* A step of the interrupt or the peripheral side: the call in progress, if
\* any, is no longer undisturbed.
Disturb ==
    /\ quiet' = (pc = "idle")
    /\ UNCHANGED << pc, arg, res, snap, ret >>

(***************************************************************************)
(* begin(): gpioConfig, nvicConfig(ENABLE), canConfig -> initCanHw.        *)
(***************************************************************************)

\* can_message_transmit finds an empty mailbox or returns CAN_NOMAILBOX
canMessageTransmit(free) == free > 0

\* begin() up to can_interrupt_enable in setIrqState: the solver, canDeinit
\* (the peripheral reset), can_init (which the hardware may refuse) and the
\* enabling of both interrupt sources.
SolverAcceptsAny(baudrate) == TRUE

\* true == calculateCANBTValues(baudrate, ...) in initCanHw
SolverAccepts(baudrate) == TimingOf[baudrate].result

\* begin(baudrate, ...) on the owner of its instance, can_init succeeding or
\* not
BeginWith(baudrate, canInitOk) ==
    LET timing == TimingOf[baudrate]
    IN  /\ nvicOn' = TRUE
        /\ IF ~SolverAccepts(baudrate)
           THEN /\ isInitialized' = FALSE
                /\ Return("begin", FALSE, ZeroMsg)
                /\ UNCHANGED << hwOn, txHwVars, rxHwVars, txDrained,
                                rxStalled, hwCfg >>
           ELSE /\ mtf' = FALSE /\ mbFree' = NUM_MAILBOXES
                /\ hwFifo' = << >>
                /\ IF canInitOk
                   THEN /\ hwOn' = TRUE
                        /\ hwCfg' = [hwCfg EXCEPT !.mode = "NORMAL",
                                                  !.bt = BtOf(timing)]
                        /\ tmeIE' = TRUE /\ rfneIE' = TRUE
                        /\ txDrained' = FALSE
                        /\ rxStalled' = FALSE
                        /\ pc' = "b_flag"
                        /\ UNCHANGED << isInitialized, arg, res, snap,
                                        quiet, ret >>
                   ELSE /\ hwOn' = FALSE
                        /\ \E reached \in {"SLEEP", "INITIALIZE"} :
                              hwCfg' = [hwCfg EXCEPT
                                 !.mode = reached,
                                 !.bt = IF reached = "INITIALIZE"
                                        THEN BtOf(timing) ELSE BtReset]
                        /\ tmeIE' = FALSE /\ rfneIE' = FALSE
                        /\ isInitialized' = FALSE
                        /\ Return("begin", FALSE, ZeroMsg)
                        /\ UNCHANGED << txDrained, rxStalled >>

BeginCall ==
    /\ UNCHANGED << ringVars, lifeVars, transceiverSleepPin, solVars >>
    /\ pc = "idle"
    /\ isInstanceAllowed
    /\ \E baudrate \in BeginRates, canInitOk \in BOOLEAN :
          BeginWith(baudrate, canInitOk)
    /\ UNCHANGED << txRing, rxRing, rxIrqEnabled, accepted, hwSent, rxTaken,
                    delivered, nWrites, nArrived, ringFault >>

\* the rest of setIrqState (*_rxIrqEnabled = true), canConfig's filter set-up
\* and _isInitialized = result
BeginFinish ==
    /\ UNCHANGED << ringVars, lifeVars, cfgVars, solVars >>
    /\ pc = "b_flag"
    /\ rxIrqEnabled' = TRUE
    /\ isInitialized' = TRUE
    /\ Return("begin", TRUE, ZeroMsg)
    /\ UNCHANGED << txRing, rxRing, nvicOn, hwOn, txHwVars, rxHwVars, histVars >>

(***************************************************************************)
(* write()                                                                 *)
(***************************************************************************)

\* the guard of the direct path: if (isRingBufferEmpty(_txRing))
DirectSendAlways(ring) == TRUE

DirectSendAllowed(ring) == isRingBufferEmpty(ring)

\* bool result {_isInitialized}; if (isRingBufferEmpty(_txRing)) ...
WriteCall ==
    /\ UNCHANGED << ringVars, lifeVars, cfgVars, solVars >>
    /\ pc = "idle"
    /\ nWrites < MaxWrites
    /\ nWrites' = nWrites + 1
    /\ IF ~isInitialized
       THEN Return("write", FALSE, nWrites + 1)
       ELSE /\ arg' = nWrites + 1
            /\ res' = TRUE
            /\ snap' = [called   |-> TRUE,
                        sendable |-> isRingBufferEmpty(txRing) /\ mbFree > 0,
                        blocked  |-> \/ txRing.buffer = NULL
                                     \/ isRingBufferFull(txRing),
                        ring     |-> txRing,
                        tme      |-> tmeIE,
                        free     |-> mbFree]
            /\ quiet' = TRUE
            /\ pc' = IF DirectSendAllowed(txRing) THEN "w_direct" ELSE "w_add"
            /\ UNCHANGED ret
    /\ UNCHANGED << objVars, nvicOn, hwOn, txHwVars, rxHwVars, accepted, hwSent,
                    rxTaken, delivered, nArrived, txDrained, rxStalled,
                    ringFault >>

\* "Sent directly and buffer is empty. Do NOT enable TX IRQ.": the direct
\* path leaves the CAN_INT_TME enable bit as it is.
TmeAfterDirectArms(tme) == TRUE

TmeAfterDirect(tme) == tme

\* if (canMessageTransmit(_deviceBase, message)) sentDirectly = true;
WriteDirect ==
    /\ UNCHANGED << ringVars, lifeVars, cfgVars, solVars >>
    /\ pc = "w_direct"
    /\ IF canMessageTransmit(mbFree)
       THEN /\ mbFree' = mbFree - 1
            /\ tmeIE' = TmeAfterDirect(tmeIE)
            /\ hwSent' = Append(hwSent, arg)
            /\ accepted' = Append(accepted, arg)
            /\ Return("write", TRUE, arg)
       ELSE /\ pc' = "w_add"
            /\ UNCHANGED << mbFree, tmeIE, hwSent, accepted, arg, res, snap,
                            quiet, ret >>
    /\ UNCHANGED << objVars, nvicOn, hwOn, mtf, rxHwVars, rxTaken,
                    delivered, nWrites, nArrived, txDrained, rxStalled,
                    ringFault >>

\* the guard of the enqueue: if (nullptr != _txRing.buffer)
TxRingUsable(ring) == ring.buffer # NULL

\* if (nullptr != _txRing.buffer) result = addToRingBuffer(_txRing, message);
\* else result = false;
WriteAdd ==
    /\ UNCHANGED << ringVars, lifeVars, cfgVars, solVars >>
    /\ pc = "w_add"
    /\ IF TxRingUsable(txRing)
       THEN LET r == addToRingBuffer(txRing, arg)
            IN  /\ ringFault' = (ringFault \/ ModFault(txRing))
                /\ IF r.ok
                   THEN /\ txRing' = r.ring
                        /\ txDrained' = FALSE
                        /\ pc' = "w_arm"
                        /\ UNCHANGED << arg, res, snap, quiet, ret >>
                   ELSE /\ Return("write", FALSE, arg)
                        /\ UNCHANGED << txRing, txDrained >>
       ELSE /\ Return("write", FALSE, arg)
            /\ UNCHANGED << txRing, txDrained, ringFault >>
    /\ UNCHANGED << isInitialized, rxRing, rxIrqEnabled, nvicOn, hwOn, txHwVars,
                    rxHwVars, accepted, hwSent, rxTaken, delivered, nWrites,
                    nArrived, rxStalled >>

\* if (true == result) setIrqState(IRQ_TX_MAILBOX_E, CAN::State::ENABLE);
WriteArm ==
    /\ UNCHANGED << ringVars, lifeVars, cfgVars, solVars >>
    /\ pc = "w_arm"
    /\ tmeIE' = TRUE
    /\ accepted' = Append(accepted, arg)
    /\ Return("write", TRUE, arg)
    /\ UNCHANGED << objVars, nvicOn, hwOn, mtf, mbFree, rxHwVars, hwSent,
                    rxTaken, delivered, nWrites, nArrived, txDrained, rxStalled,
                    ringFault >>

(***************************************************************************)
(* The TX interrupt (CANx_TX_IRQHandler -> commonCanTxIrqHandler).         *)
(***************************************************************************)

\* The while loop: hands the front message to a mailbox and removes it,
\* until the ring is empty or no mailbox takes the message.
RECURSIVE TxDrain(_, _, _)
TxDrain(ring, free, sent) ==
    IF isRingBufferEmpty(ring)
    THEN [ring |-> ring, free |-> free, sent |-> sent]
    ELSE LET r == readFromRingBuffer(ring)
         IN  IF r.ok /\ canMessageTransmit(free)
             THEN TxDrain(removeFromRingBuffer(ring), free - 1,
                          Append(sent, r.message))
             ELSE [ring |-> ring, free |-> free, sent |-> sent]

\* the handler disabling CAN_INT_TME whatever the ring holds
TmeAfterDrainOff(ring, tme) == FALSE

\* if (isRingBufferEmpty(*ring)) can_interrupt_disable(canPeriph, CAN_INT_TME);
TmeAfterDrain(ring, tme) == IF isRingBufferEmpty(ring) THEN FALSE ELSE tme

\* The handler once it has been entered: it clears the flags it found
\* (CAN_TSTAT(canPeriph) = mailboxes).
TxIrqBody ==
    /\ UNCHANGED << ringVars, lifeVars, cfgVars, solVars >>
    /\ mtf' = FALSE
    /\ IF txRing.buffer # NULL
       THEN LET d == TxDrain(txRing, mbFree, << >>)
            IN  /\ txRing' = d.ring
                /\ mbFree' = d.free
                /\ hwSent' = hwSent \o d.sent
                /\ tmeIE' = TmeAfterDrain(d.ring, tmeIE)
                /\ txDrained' = (txDrained \/ (~isRingBufferEmpty(txRing)
                                               /\ isRingBufferEmpty(d.ring)))
       ELSE UNCHANGED << txRing, mbFree, hwSent, tmeIE, txDrained >>
    /\ Disturb
    /\ UNCHANGED << isInitialized, rxRing, rxIrqEnabled, nvicOn, hwOn, rxHwVars,
                    accepted, rxTaken, delivered, nWrites, nArrived, rxStalled,
                    ringFault >>

\* The interrupt is raised by a set MTF flag while CAN_INT_TME is enabled.
commonCanTxIrqHandler ==
    /\ nvicOn /\ tmeIE /\ mtf
    /\ TxIrqBody

\* The interrupt as the comments of write() and of the handler describe it:
\* it "will fire continuously (because the hardware mailbox is empty)" while
\* CAN_INT_TME is enabled.
TxIrqOnMailboxEmpty ==
    /\ nvicOn /\ tmeIE /\ mbFree > 0
    /\ TxIrqBody

\* The peripheral finishes the transmission of a pending mailbox.
MailboxComplete ==
    /\ UNCHANGED << ringVars, lifeVars, cfgVars, solVars >>
    /\ hwOn
    /\ mbFree < NUM_MAILBOXES
    /\ mbFree' = mbFree + 1
    /\ mtf' = TRUE
    /\ Disturb
    /\ UNCHANGED << objVars, nvicOn, hwOn, tmeIE, rxHwVars, histVars >>

(***************************************************************************)
(* read()                                                                  *)
(***************************************************************************)

\* bool result {_isInitialized}; then the opening of the bracket:
\* setIrqState(IRQ_RX_FIFO_NE, DISABLE) when the interrupt is recorded as
\* enabled, *_rxIrqEnabled = true otherwise.
ReadCall ==
    /\ UNCHANGED << ringVars, lifeVars, cfgVars, solVars >>
    /\ pc = "idle"
    /\ IF ~isInitialized
       THEN /\ Return("read", FALSE, ZeroMsg)
            /\ UNCHANGED << rfneIE, rxIrqEnabled >>
       ELSE /\ IF rxIrqEnabled
               THEN rfneIE' = FALSE /\ rxIrqEnabled' = FALSE
               ELSE rxIrqEnabled' = TRUE /\ UNCHANGED rfneIE
            /\ snap' = [called |-> TRUE, stalled |-> rxStalled,
                        irqOn |-> rxIrqEnabled]
            /\ pc' = "r_read"
            /\ quiet' = TRUE
            /\ UNCHANGED << arg, res, ret >>
    /\ UNCHANGED << isInitialized, txRing, rxRing, nvicOn, hwOn, txHwVars,
                    hwFifo, accepted, hwSent, rxTaken, delivered, nWrites,
                    nArrived, txDrained, rxStalled, ringFault >>

\* result = readFromRingBuffer(_rxRing, message);
ReadCopy ==
    /\ UNCHANGED << ringVars, lifeVars, cfgVars, solVars >>
    /\ pc = "r_read"
    /\ LET r == readFromRingBuffer(rxRing)
       IN  /\ res' = r.ok
           /\ arg' = r.message
           /\ pc' = IF r.ok THEN "r_pop" ELSE "r_enable"
    /\ UNCHANGED << objVars, nvicOn, hwOn, txHwVars, rxHwVars, snap, quiet, ret,
                    histVars >>

\* if (true == result) removeFromRingBuffer(_rxRing);
ReadPop ==
    /\ UNCHANGED << ringVars, lifeVars, cfgVars, solVars >>
    /\ pc = "r_pop"
    /\ rxRing' = removeFromRingBuffer(rxRing)
    /\ pc' = "r_enable"
    /\ UNCHANGED << isInitialized, txRing, rxIrqEnabled, nvicOn, hwOn, txHwVars,
                    rxHwVars, arg, res, snap, quiet, ret, histVars >>

\* setIrqState(IRQ_RX_FIFO_NE, ENABLE), first half: can_interrupt_enable
ReadEnable ==
    /\ UNCHANGED << ringVars, lifeVars, cfgVars, solVars >>
    /\ pc = "r_enable"
    /\ rfneIE' = TRUE
    /\ rxStalled' = FALSE
    /\ pc' = "r_flag"
    /\ UNCHANGED << objVars, nvicOn, hwOn, txHwVars, hwFifo, arg, res, snap,
                    quiet, ret, accepted, hwSent, rxTaken, delivered, nWrites,
                    nArrived, txDrained, ringFault >>

\* setIrqState, second half: *_rxIrqEnabled = true; then return result
ReadReturn ==
    /\ UNCHANGED << ringVars, lifeVars, cfgVars, solVars >>
    /\ pc = "r_flag"
    /\ rxIrqEnabled' = TRUE
    /\ delivered' = IF res THEN Append(delivered, arg) ELSE delivered
    /\ Return("read", res, arg)
    /\ UNCHANGED << isInitialized, txRing, rxRing, nvicOn, hwOn, txHwVars,
                    rxHwVars, accepted, hwSent, rxTaken, nWrites, nArrived,
                    txDrained, rxStalled, ringFault >>

(***************************************************************************)
(* attachTransceiverSleepPin(), setTransceiverMode(), setWorkingMode() and *)
(* setBaudrate(), called from the application between other calls.        *)
(***************************************************************************)
CfgFrame ==
    UNCHANGED << objVars, nvicOn, hwOn, txHwVars, rxHwVars, histVars,
                 ringVars, lifeVars, solVars >>

attachTransceiverSleepPin ==
    /\ pc = "idle"
    /\ \E pin \in SleepPins :
          IF isInstanceAllowed
          THEN /\ transceiverSleepPin' = pin
               /\ hwCfg' = [hwCfg EXCEPT !.pinLevel = "HIGH"]
               /\ Return("attachTransceiverSleepPin", TRUE, ZeroMsg)
          ELSE /\ Return("attachTransceiverSleepPin", FALSE, ZeroMsg)
               /\ UNCHANGED cfgVars
    /\ CfgFrame

\* the test setTransceiverMode makes before it drives the pin
TransceiverUsableAnyState(initialized, pin) == NO_PIN # pin

TransceiverUsable(initialized, pin) == initialized /\ NO_PIN # pin

setTransceiverMode ==
    /\ pc = "idle"
    /\ \E state \in {"ENABLE", "DISABLE"} :
          LET result == TransceiverUsable(isInitialized, transceiverSleepPin)
          IN  /\ hwCfg' = IF result
                          THEN [hwCfg EXCEPT !.pinLevel =
                                  IF state = "ENABLE" THEN "LOW" ELSE "HIGH"]
                          ELSE hwCfg
              /\ Return("setTransceiverMode", result, ZeroMsg)
    /\ UNCHANGED transceiverSleepPin
    /\ CfgFrame

\* can_working_mode_set: [result, hw] afterwards; reached is whether the
\* peripheral acknowledged the mode in time
can_working_mode_set(hw, mode, reached) ==
    IF reached THEN [result |-> TRUE, hw |-> [hw EXCEPT !.mode = mode]]
    ELSE [result |-> FALSE, hw |-> hw]

\* setWorkingMode as a function: [result, hw] afterwards
WorkingModeSet(initialized, hw, mode, reached) ==
    IF initialized THEN can_working_mode_set(hw, mode, reached)
    ELSE [result |-> FALSE, hw |-> hw]

setWorkingMode ==
    /\ pc = "idle"
    /\ \E mode \in WorkingModes, reached \in BOOLEAN :
          LET r == WorkingModeSet(isInitialized, hwCfg, mode, reached)
          IN  /\ hwCfg' = r.hw
              /\ Return("setWorkingMode", r.result, ZeroMsg)
    /\ UNCHANGED transceiverSleepPin
    /\ CfgFrame

\* setBaudrate(baudrate), the two mode switches succeeding or not
SetBaudrateWith(baudrate, reachedInit, reachedNormal) ==
    IF isInitialized /\ baudrate <= HW_MAX_BAUDRATE
    THEN LET i == WorkingModeSet(isInitialized, hwCfg, "INITIALIZE",
                                 reachedInit)
             canBtVal == calculateCANBTRegValue(baudrate)
             hw1 == IF i.result /\ canBtVal # BtReset
                    THEN [i.hw EXCEPT !.bt = canBtVal]
                    ELSE i.hw
             n == WorkingModeSet(isInitialized, hw1, "NORMAL",
                                 reachedNormal)
         IN  /\ hwCfg' = n.hw
             /\ Return("setBaudrate", n.result, ZeroMsg)
    ELSE /\ UNCHANGED hwCfg
         /\ Return("setBaudrate", isInitialized, ZeroMsg)

setBaudrate ==
    /\ pc = "idle"
    /\ \E baudrate \in SetRates, reachedInit \in BOOLEAN,
          reachedNormal \in BOOLEAN :
          SetBaudrateWith(baudrate, reachedInit, reachedNormal)
    /\ UNCHANGED transceiverSleepPin
    /\ CfgFrame

(***************************************************************************)
(* peek()                                                                  *)
(***************************************************************************)

\* bool result {_isInitialized}; if (true == *_rxIrqEnabled)
\*     setIrqState(IRQ_RX_FIFO_NE, DISABLE): the hardware bit is cleared
\* first, so the handler cannot run between the two writes.
PeekCall ==
    /\ UNCHANGED << ringVars, lifeVars, cfgVars, solVars >>
    /\ pc = "idle"
    /\ IF ~isInitialized
       THEN /\ Return("peek", FALSE, ZeroMsg)
            /\ UNCHANGED << rfneIE, rxIrqEnabled >>
       ELSE /\ IF rxIrqEnabled
               THEN rfneIE' = FALSE /\ rxIrqEnabled' = FALSE
               ELSE UNCHANGED << rfneIE, rxIrqEnabled >>
            /\ snap' = [called |-> TRUE, stalled |-> rxStalled,
                        irqOn |-> rxIrqEnabled]
            /\ pc' = "p_read"
            /\ quiet' = TRUE
            /\ UNCHANGED << arg, res, ret >>
    /\ UNCHANGED << isInitialized, txRing, rxRing, nvicOn, hwOn, txHwVars,
                    hwFifo, histVars >>

\* a peek() that removed the element it copied
RingAfterPeekPopped(ring) == removeFromRingBuffer(ring)

\* peek() calls readFromRingBuffer only: no removeFromRingBuffer, the ring
\* is left as it is
RingAfterPeek(ring) == ring

\* result = readFromRingBuffer(_rxRing, message);
PeekCopy ==
    /\ UNCHANGED << ringVars, lifeVars, cfgVars, solVars >>
    /\ pc = "p_read"
    /\ LET r == readFromRingBuffer(rxRing)
       IN  /\ res' = r.ok
           /\ arg' = r.message
           /\ pc' = "p_test"
    /\ rxRing' = RingAfterPeek(rxRing)
    /\ UNCHANGED << isInitialized, txRing, rxIrqEnabled, nvicOn, hwOn, txHwVars,
                    rxHwVars, snap, quiet, ret, histVars >>

\* if (true == *_rxIrqEnabled) setIrqState(IRQ_RX_FIFO_NE, ENABLE);
\* return result;
PeekFinish ==
    /\ UNCHANGED << ringVars, lifeVars, cfgVars, solVars >>
    /\ pc = "p_test"
    /\ IF rxIrqEnabled
       THEN rfneIE' = TRUE /\ rxIrqEnabled' = TRUE
       ELSE UNCHANGED << rfneIE, rxIrqEnabled >>
    /\ Return("peek", res, arg)
    /\ UNCHANGED << isInitialized, txRing, rxRing, nvicOn, hwOn, txHwVars,
                    hwFifo, histVars >>

(***************************************************************************)
(* The RX interrupt (CANx_RX0_IRQHandler -> commonCanRxIrqHandler).        *)
(***************************************************************************)

\* the guard of the handler body: (nullptr != ring) && (nullptr != ring->buffer)
RxRingUsable(ring) == ring.buffer # NULL

\* the else branch of the handler (ring full) does not call
\* canMessageReceive: the frame stays in FIFO 0
FifoAfterStallDrop(fifo) == Tail(fifo)

FifoAfterStall(fifo) == fifo

\* The interrupt is raised while FIFO 0 holds a frame and CAN_INT_RFNE0 is
\* enabled.  canMessageReceive copies the oldest frame and releases its slot.
commonCanRxIrqHandler ==
    /\ UNCHANGED << ringVars, lifeVars, cfgVars, solVars >>
    /\ nvicOn /\ rfneIE /\ hwFifo # << >>
    /\ IF RxRingUsable(rxRing)
       THEN /\ ringFault' = (ringFault \/ ModFault(rxRing))
            /\ IF ~isRingBufferFull(rxRing)
               THEN /\ rxRing' = addToRingBuffer(rxRing, Head(hwFifo)).ring
                    /\ hwFifo' = Tail(hwFifo)
                    /\ rxTaken' = Append(rxTaken, Head(hwFifo))
                    /\ UNCHANGED << rfneIE, rxIrqEnabled, rxStalled >>
               ELSE /\ rfneIE' = FALSE
                    /\ rxIrqEnabled' = FALSE
                    /\ rxStalled' = TRUE
                    /\ hwFifo' = FifoAfterStall(hwFifo)
                    /\ UNCHANGED << rxRing, rxTaken >>
       ELSE UNCHANGED << rxRing, hwFifo, rxTaken, rfneIE, rxIrqEnabled,
                         rxStalled, ringFault >>
    /\ Disturb
    /\ UNCHANGED << isInitialized, txRing, nvicOn, hwOn, txHwVars, accepted,
                    hwSent, delivered, nWrites, nArrived, txDrained >>

\* A frame arrives from the bus.  With the FIFO full it is lost in the
\* peripheral (rec_fifo_overwrite is disabled).
FrameArrive ==
    /\ UNCHANGED << ringVars, lifeVars, cfgVars, solVars >>
    /\ hwOn
    /\ nArrived < MaxFrames
    /\ nArrived' = nArrived + 1
    /\ hwFifo' = IF Len(hwFifo) < MaxFifo
                 THEN Append(hwFifo, nArrived + 1)
                 ELSE hwFifo
    /\ Disturb
    /\ UNCHANGED << objVars, nvicOn, hwOn, txHwVars, rfneIE, accepted, hwSent,
                    rxTaken, delivered, nWrites, txDrained, rxStalled,
                    ringFault >>

(***************************************************************************)
(* The program.                                                            *)
(***************************************************************************)
Next ==
    \/ BeginCall
    \/ BeginFinish
    \/ WriteCall
    \/ WriteDirect
    \/ WriteAdd
    \/ WriteArm
    \/ ReadCall
    \/ ReadCopy
    \/ ReadPop
    \/ ReadEnable
    \/ ReadReturn
    \/ PeekCall
    \/ PeekCopy
    \/ PeekFinish
    \/ attachTransceiverSleepPin
    \/ setTransceiverMode
    \/ setWorkingMode
    \/ setBaudrate
    \/ commonCanTxIrqHandler
    \/ commonCanRxIrqHandler
    \/ MailboxComplete
    \/ FrameArrive

Spec == Init /\ [][Next]_vars

(***************************************************************************)
(* The two directions share nothing but the application's program counter  *)
(* and begin(): each is also checked on its own, where larger bounds fit.  *)
(***************************************************************************)
NextTx ==
    \/ BeginCall
    \/ BeginFinish
    \/ WriteCall
    \/ WriteDirect
    \/ WriteAdd
    \/ WriteArm
    \/ commonCanTxIrqHandler
    \/ MailboxComplete

SpecTx == Init /\ [][NextTx]_vars

NextRx ==
    \/ BeginCall
    \/ BeginFinish
    \/ ReadCall
    \/ ReadCopy
    \/ ReadPop
    \/ ReadEnable
    \/ ReadReturn
    \/ PeekCall
    \/ PeekCopy
    \/ PeekFinish
    \/ commonCanRxIrqHandler
    \/ FrameArrive

SpecRx == Init /\ [][NextRx]_vars

(***************************************************************************)
(* The controller on a bus where no frame arrives: every call of the       *)
(* application, before and after begin(), and the transmit side.  read()   *)
(* finds no message here, so its removeFromRingBuffer step cannot occur.   *)
(***************************************************************************)
InitCalls ==
    /\ Constructed(2, 2)
    /\ RingUnused
    /\ NoObjects
    /\ SolverUnused

NextCalls ==
    \/ BeginCall
    \/ BeginFinish
    \/ WriteCall
    \/ WriteDirect
    \/ WriteAdd
    \/ WriteArm
    \/ ReadCall
    \/ ReadCopy
    \/ ReadEnable
    \/ ReadReturn
    \/ PeekCall
    \/ PeekCopy
    \/ PeekFinish
    \/ attachTransceiverSleepPin
    \/ setTransceiverMode
    \/ setWorkingMode
    \/ setBaudrate
    \/ commonCanTxIrqHandler
    \/ MailboxComplete

SpecCalls == InitCalls /\ [][NextCalls]_vars

(***************************************************************************)
(* The ring buffer on its own: a ring of capacity 0..MaxSize as            *)
(* GD32CAN::init builds it, and any sequence of push (addToRingBuffer),    *)
(* peekFront (readFromRingBuffer) and popFront (removeFromRingBuffer).     *)
(* queue is the first-in first-out queue the ring is meant to be.          *)
(***************************************************************************)
RingMsgs == 1..MaxMsgId

\* the ring a constructor leaves: allocated (new message_t[size]) or, for
\* size 0, without backing storage
InitRing ==
    /\ Constructed(0, 0)
    /\ NoObjects
    /\ SolverUnused
    /\ \E size \in 0..MaxSize :
          ringBuf = initRingBuffer(IF size > 0 THEN NewBuffer(size) ELSE NULL, size)
    /\ queue = << >>
    /\ rop = NoRop

\* addToRingBuffer(ring, message).  On a ring of size 0 the first statement
\* evaluates (ring.head + 1) % 0: the behaviour is undefined, the call may
\* return either value or not return, and the model records the fault and
\* follows the ring no further.
RingPush ==
    /\ ~rop.fault
    /\ \E message \in RingMsgs :
          IF ModFault(ringBuf)
          THEN /\ \E ok \in BOOLEAN :
                     rop' = [op |-> "push", ok |-> ok, msg |-> message,
                             was |-> queue, fault |-> TRUE]
               /\ UNCHANGED << ringBuf, queue >>
          ELSE LET r == addToRingBuffer(ringBuf, message)
               IN  /\ ringBuf' = r.ring
                   /\ queue' = IF r.ok THEN Append(queue, message) ELSE queue
                   /\ rop' = [op |-> "push", ok |-> r.ok, msg |-> message,
                              was |-> queue, fault |-> FALSE]
    /\ UNCHANGED << ctlVars, lifeVars, solVars >>

\* readFromRingBuffer(ring, message)
RingPeek ==
    /\ ~rop.fault
    /\ LET r == readFromRingBuffer(ringBuf)
       IN  rop' = [op |-> "peek", ok |-> r.ok, msg |-> r.message, was |-> queue,
                   fault |-> FALSE]
    /\ UNCHANGED << ringBuf, queue >>
    /\ UNCHANGED << ctlVars, lifeVars, solVars >>

\* removeFromRingBuffer(ring): the modulo is evaluated only on a non-empty ring
RingPop ==
    /\ ~rop.fault
    /\ ringBuf' = removeFromRingBuffer(ringBuf)
    /\ queue' = IF queue # << >> THEN Tail(queue) ELSE queue
    /\ rop' = [op |-> "pop", ok |-> ~isRingBufferEmpty(ringBuf), msg |-> ZeroMsg,
               was |-> queue,
               fault |-> ~isRingBufferEmpty(ringBuf) /\ ModFault(ringBuf)]
    /\ UNCHANGED << ctlVars, lifeVars, solVars >>

NextRing ==
    \/ RingPush
    \/ RingPeek
    \/ RingPop

SpecRing == InitRing /\ [][NextRing]_vars

(***************************************************************************)
(* Lifecycle, ownership and filters: controller objects are constructed    *)
(* for any device, begun, given filters and destroyed, in any order.  The  *)
(* calls are made from the application, one at a time.                     *)
(***************************************************************************)
InitLife ==
    /\ Constructed(0, 0)
    /\ RingUnused
    /\ NoObjects
    /\ SolverUnused

\* one more call from the application
Called == nCalls < MaxCalls /\ nCalls' = nCalls + 1

\* _isInstanceAllowed as init computes it from the ownership bitmap
InstanceFreeAlways(mask, owned) == TRUE

InstanceFree(mask, owned) == mask \notin owned

\* CAN::canNTxRing = &_txRing; CAN::canNRxRing = &_rxRing: the pointers the
\* interrupt handlers of the instance use now point to the rings of the
\* object under construction, and no longer to those of another object of
\* the same instance
IrqBoundAfterInit(other, mask) ==
    IF other.live /\ InstanceMask(other.device) = mask
    THEN FALSE ELSE other.irqBound

\* a constructor: GD32CAN::init
Construct(o, device) ==
    /\ Called
    /\ ~objs[o].live
    /\ LET mask == InstanceMask(device)
           isCan1 == device \in Can1Devices
           created == [live |-> TRUE, device |-> device,
                       allowed |-> InstanceFree(mask, instances),
                       initialized |-> FALSE, filtersStates |-> {},
                       firstFilterId |-> IF isCan1
                                         THEN DEFAULT_CAN1_START_FILTER_ID
                                         ELSE MIN_BANK,
                       configured |-> {}, irqBound |-> TRUE]
       IN  /\ objs' = [p \in Objs |->
                         IF p = o THEN created
                         ELSE [objs[p] EXCEPT !.irqBound =
                                  IrqBoundAfterInit(objs[p], mask)]]
           /\ instances' = instances \cup {mask}
           /\ can1StartFilterId' = IF isCan1 THEN DEFAULT_CAN1_START_FILTER_ID
                                   ELSE can1StartFilterId
           /\ lret' = [op |-> "construct", obj |-> o,
                       result |-> InstanceFree(mask, instances),
                       slot |-> -1]
    /\ UNCHANGED << filt, ctlVars, ringVars, solVars >>

\* what the destructor leaves of the ownership bitmap
InstancesAfterDestroyAny(owned, mask, allowed) == owned \ {mask}

InstancesAfterDestroy(owned, mask, allowed) ==
    IF allowed THEN owned \ {mask} ELSE owned

\* what the destructor leaves of the filter split point
SplitAfterDestroyKept(split, device, allowed) == split

SplitAfterDestroy(split, device, allowed) ==
    IF allowed /\ device \in Can1Devices THEN CAN1_START_UNSET ELSE split

\* the destructor
Destroy(o) ==
    /\ Called
    /\ objs[o].live
    /\ LET obj == objs[o]
       IN  /\ can1StartFilterId' = SplitAfterDestroy(can1StartFilterId,
                                        obj.device, obj.allowed)
           /\ filt' = IF obj.allowed THEN canDeinit(filt, obj.device) ELSE filt
           /\ instances' = InstancesAfterDestroy(instances,
                                InstanceMask(obj.device), obj.allowed)
           /\ lret' = [op |-> "destroy", obj |-> o, result |-> obj.allowed,
                       slot |-> -1, device |-> obj.device]
    /\ objs' = [objs EXCEPT ![o] = NoObject]
    /\ UNCHANGED << ctlVars, ringVars, solVars >>

\* what begin() writes to _isInitialized when it fails
InitializedAfterFailedBeginStale(was) == was

InitializedAfterFailedBegin(was) == FALSE

\* begin(): canConfig -> initCanHw (solver, canDeinit, can_init), then
\* setCan1StartFilterId(DEFAULT_CAN1_START_FILTER_ID) and clearAllFilters
Begin(o, baudrate, canInitOk) ==
    /\ Called
    /\ objs[o].live
    /\ LET obj    == objs[o]
           timing == TimingOf[baudrate].result
           isCan1 == InstanceMask(obj.device) = INSTANCES_MASK_CAN1
           start  == IF isCan1 THEN DEFAULT_CAN1_START_FILTER_ID
                     ELSE can1StartFilterId
           obj1   == IF isCan1
                     THEN [obj EXCEPT !.firstFilterId = DEFAULT_CAN1_START_FILTER_ID]
                     ELSE obj
           f1     == canDeinit(filt, obj.device)
           f2     == IF isCan1
                     THEN can1_filter_start_bank(f1, DEFAULT_CAN1_START_FILTER_ID)
                     ELSE f1
           r      == clearAllFilters(obj1, f2, start)
           hwOk   == timing /\ canInitOk
           result == obj.allowed /\ hwOk /\ r.result
       IN  /\ IF ~obj.allowed
              THEN UNCHANGED << objs, can1StartFilterId, filt >>
              ELSE IF ~timing
              THEN /\ objs' = [objs EXCEPT ![o].initialized =
                                 InitializedAfterFailedBegin(@)]
                   /\ UNCHANGED << can1StartFilterId, filt >>
              ELSE IF ~canInitOk
              THEN /\ objs' = [objs EXCEPT ![o].initialized =
                                 InitializedAfterFailedBegin(@)]
                   /\ filt' = canDeinit(filt, obj.device)
                   /\ UNCHANGED can1StartFilterId
              ELSE /\ objs' = [objs EXCEPT ![o] =
                                 [r.obj EXCEPT !.initialized = r.result]]
                   /\ filt' = r.filt
                   /\ can1StartFilterId' = start
           /\ lret' = [op |-> "begin", obj |-> o, result |-> result,
                       slot |-> -1, allowed |-> obj.allowed,
                       timing |-> timing, hwOk |-> hwOk]
    /\ UNCHANGED << instances, ctlVars, ringVars, solVars >>

\* any public setFilter overload: canApply is its test of the frame ids
UserSetFilter(o, filterId, canApply) ==
    /\ Called
    /\ objs[o].live
    /\ LET r == setFilter(objs[o], filt, can1StartFilterId, filterId, "user",
                          "ENABLE")
           result == canApply /\ r.result
       IN  /\ objs' = IF result
                      THEN [objs EXCEPT ![o] =
                              [r.obj EXCEPT !.configured = @ \cup {filterId}]]
                      ELSE objs
           /\ filt' = IF result THEN r.filt ELSE filt
           /\ lret' = [op |-> "setFilter", obj |-> o, result |-> result,
                       slot |-> filterId]
    /\ UNCHANGED << instances, can1StartFilterId, ctlVars, ringVars, solVars >>

allowReceiveAllMessages(o) ==
    /\ Called
    /\ objs[o].live
    /\ LET obj == objs[o]
           r == setFilter(obj, filt, can1StartFilterId, obj.firstFilterId,
                          "all", "ENABLE")
           applies == obj.allowed /\ obj.firstFilterId >= 0
       IN  /\ objs' = IF applies /\ r.result
                      THEN [objs EXCEPT ![o] =
                              [r.obj EXCEPT !.configured =
                                              @ \cup {obj.firstFilterId}]]
                      ELSE objs
           /\ filt' = IF applies THEN r.filt ELSE filt
           /\ lret' = [op |-> "allowReceiveAllMessages", obj |-> o,
                       result |-> obj.allowed, slot |-> obj.firstFilterId]
    /\ UNCHANGED << instances, can1StartFilterId, ctlVars, ringVars, solVars >>

enableFilter(o, filterId) ==
    /\ Called
    /\ objs[o].live
    /\ LET obj == objs[o]
           allocated == filterId \in obj.filtersStates
           r == setFilterState(obj, filt, can1StartFilterId, filterId, "ENABLE")
       IN  /\ filt' = IF allocated THEN r.filt ELSE filt
           /\ lret' = [op |-> "enableFilter", obj |-> o,
                       result |-> allocated /\ r.result, slot |-> filterId]
    /\ UNCHANGED << objs, instances, can1StartFilterId, ctlVars, ringVars, solVars >>

disableFilter(o, filterId) ==
    /\ Called
    /\ objs[o].live
    /\ LET r == setFilterState(objs[o], filt, can1StartFilterId, filterId,
                               "DISABLE")
       IN  /\ filt' = r.filt
           /\ lret' = [op |-> "disableFilter", obj |-> o, result |-> r.result,
                       slot |-> filterId]
    /\ UNCHANGED << objs, instances, can1StartFilterId, ctlVars, ringVars, solVars >>

ClearAllFiltersCall(o) ==
    /\ Called
    /\ objs[o].live
    /\ LET obj == objs[o]
           r == clearAllFilters(obj, filt, can1StartFilterId)
       IN  /\ objs' = [objs EXCEPT ![o] = r.obj]
           /\ filt' = r.filt
           /\ lret' = [op |-> "clearAllFilters", obj |-> o,
                       result |-> r.result, slot |-> -1]
    /\ UNCHANGED << instances, can1StartFilterId, ctlVars, ringVars, solVars >>

\* the test setCan1StartFilterId makes before it moves the split point
MaySetCan1StartAnyOwner(allowed, mask) == allowed

MaySetCan1Start(allowed, mask) == allowed /\ INSTANCES_MASK_CAN1 = mask

setCan1StartFilterId(o, filterId) ==
    /\ Called
    /\ objs[o].live
    /\ LET obj == objs[o]
           result == MaySetCan1Start(obj.allowed, InstanceMask(obj.device))
       IN  /\ objs' = IF result
                      THEN [objs EXCEPT ![o].firstFilterId = filterId]
                      ELSE objs
           /\ can1StartFilterId' = IF result THEN filterId
                                   ELSE can1StartFilterId
           /\ filt' = IF result THEN can1_filter_start_bank(filt, filterId)
                      ELSE filt
           /\ lret' = [op |-> "setCan1StartFilterId", obj |-> o,
                       result |-> result, slot |-> filterId]
    /\ UNCHANGED << instances, ctlVars, ringVars, solVars >>

NextLife ==
    \/ \E o \in Objs, device \in Devices : Construct(o, device)
    \/ \E o \in Objs : Destroy(o)
    \/ \E o \in Objs, baudrate \in BeginRates, canInitOk \in BOOLEAN :
          Begin(o, baudrate, canInitOk)
    \/ \E o \in Objs, filterId \in FilterIds, canApply \in BOOLEAN :
          UserSetFilter(o, filterId, canApply)
    \/ \E o \in Objs : allowReceiveAllMessages(o)
    \/ \E o \in Objs, filterId \in FilterIds : enableFilter(o, filterId)
    \/ \E o \in Objs, filterId \in FilterIds : disableFilter(o, filterId)
    \/ \E o \in Objs : ClearAllFiltersCall(o)
    \/ \E o \in Objs, filterId \in FilterIds : setCan1StartFilterId(o, filterId)

SpecLife == InitLife /\ [][NextLife]_vars

(***************************************************************************)
(* Properties of the transmit direction (checked under SpecTx).            *)
(***************************************************************************)

\* C1 (as claimed): no-ISR-storm invariant.  Whenever no call of the
\* application is in progress (the TX handler is a single step, so it is
\* never in progress in a state), an empty TX ring implies that the
\* mailbox-empty interrupt is disabled.
C1_NoIsrStorm ==
    (pc = "idle" /\ isRingBufferEmpty(txRing)) => ~tmeIE

\* C2 (as claimed): once the TX ring has gone from non-empty to empty, the
\* mailbox-empty interrupt is disabled when the write() that was pre-empted
\* returns, and it stays disabled until a later write() enqueues a message
\* (txDrained is reset by an enqueue, and by begin() re-initialising the
\* peripheral).
C2_DrainedTmeOff ==
    (pc = "idle" /\ txDrained) => ~tmeIE

\* a step of the application (only the application moves pc)
AppStep == pc' # pc

\* the step by which a write() that got past the _isInitialized test returns
WriteReturns == pc \in {"w_direct", "w_add", "w_arm"} /\ pc' = "idle"

\* the message a write() in progress has put in the ring but not yet
\* reported as accepted
InFlight == IF pc = "w_arm" THEN << arg >> ELSE << >>

\* C3: TX order and accounting.  In every state the messages handed to the
\* mailboxes, in hand-over order, followed by the TX ring contents (tail to
\* head) are the messages write() returned true for, in call order (followed
\* by the message of a write() that has enqueued and is about to return
\* true); and the direct path hands a message over only while the ring is
\* empty.
C3_TxOrder ==
    /\ [](hwSent \o RingContents(txRing) = accepted \o InFlight)
    /\ [][(pc = "w_direct" /\ hwSent' # hwSent) => isRingBufferEmpty(txRing)]_vars

C3_Witness ==
    /\ pc = "idle"
    /\ hwSent = << 1, 2, 3, 4 >>
    /\ RingContents(txRing) = << 5 >>
    /\ txRing.tail # 0

\* C4: fast path.  A write() called on an initialized controller with the
\* TX ring empty and a mailbox free returns true having handed its message
\* to the hardware; the TX ring is as it was at the call, no step of the
\* call changes the mailbox-empty interrupt enable bit, and the bit is as
\* it was at the call when nothing pre-empted the call.
C4_FastPath ==
    /\ [][(pc = "idle" /\ pc' = "w_direct") => UNCHANGED << txRing, tmeIE >>]_vars
    /\ [][(pc = "w_direct" /\ AppStep /\ snap.sendable) =>
            /\ pc' = "idle"
            /\ ret' = [op |-> "write", result |-> TRUE, msg |-> arg]
            /\ hwSent' = Append(hwSent, arg)
            /\ txRing' = snap.ring
            /\ tmeIE' = tmeIE
            /\ (quiet => tmeIE' = snap.tme)]_vars

C4_Witness ==
    /\ pc = "idle"
    /\ ret = [op |-> "write", result |-> TRUE, msg |-> 4]
    /\ hwSent = << 1, 2, 3, 4 >>
    /\ txRing.size > 0 /\ isRingBufferEmpty(txRing)
    /\ ~tmeIE

\* C5: backpressure.  A write() on an initialized controller returns false
\* exactly when it reaches the enqueue (the direct path was not taken or
\* found no mailbox) and finds the TX ring unallocated or full; for a call
\* nothing pre-empts this is: exactly when, at the call, the message could
\* not be sent directly (ring non-empty or all mailboxes busy) and the ring
\* was full or unallocated.  A write() that returns false leaves the TX
\* ring, the interrupt enable bit and the mailboxes unchanged.
C5_Backpressure ==
    [][WriteReturns =>
         /\ (~ret'.result) <=>
               (pc = "w_add" /\ (txRing.buffer = NULL \/ isRingBufferFull(txRing)))
         /\ (~ret'.result) => UNCHANGED << txRing, tmeIE, mbFree, hwSent >>
         /\ quiet => ((~ret'.result) <=> (~snap.sendable /\ snap.blocked))
         /\ (quiet /\ ~ret'.result) =>
               (txRing' = snap.ring /\ tmeIE' = snap.tme /\ mbFree' = snap.free)]_vars

C5_Witness ==
    /\ pc = "idle" /\ isInitialized
    /\ ret = [op |-> "write", result |-> FALSE, msg |-> 5]
    /\ txRing.size = 2 /\ RingContents(txRing) = << 4 >>
    /\ mbFree = 0

(***************************************************************************)
(* Properties of the ring buffer (checked under SpecRing).  queue is the   *)
(* sequence of the messages pushed successfully and not yet popped.        *)
(***************************************************************************)

Allocated(ring) == ring.size > 0

\* C6: ring FIFO order.  On an allocated ring, at every reachable position
\* of head and tail (wrapped around or not), the ring holds, tail to head,
\* the successfully pushed and not yet popped messages in push order, its
\* count is their number, a peek of a non-empty ring returns the oldest of
\* them and a pop removes exactly that one: N pushes followed by N peek/pop
\* pairs return the pushed messages in push order.
C6_RingFifo ==
    /\ [](Allocated(ringBuf) => RingContents(ringBuf) = queue)
    /\ [](Allocated(ringBuf) => ringBufferCount(ringBuf) = Len(queue))
    /\ [][(RingPeek /\ Allocated(ringBuf)) => (rop'.ok <=> queue # << >>)
                      /\ (queue # << >> => rop'.msg = Head(queue))]_vars
    /\ [][(RingPop /\ Allocated(ringBuf)) => queue' = (IF queue = << >> THEN queue ELSE Tail(queue))
                     /\ RingContents(ringBuf') = queue']_vars

C6_Witness ==
    /\ ringBuf.head < ringBuf.tail
    /\ rop.op = "peek" /\ rop.ok
    /\ queue = << 2, 1 >>
    /\ rop.msg = 2

\* C7: ring full/empty boundary.  A ring of capacity C is full exactly when
\* it holds C-1 messages, so an empty ring accepts exactly C-1 consecutive
\* pushes; a push succeeds exactly when the ring is not full, and a push on
\* a full ring returns false and leaves the ring unchanged; popping one
\* element from a full ring leaves it not full and the next push succeeds.
C7_RingBoundary ==
    /\ [](Allocated(ringBuf) =>
            (isRingBufferFull(ringBuf) <=> Len(queue) = ringBuf.size - 1))
    /\ [][(RingPush /\ Allocated(ringBuf)) =>
                      /\ rop'.ok <=> ~isRingBufferFull(ringBuf)
                      /\ rop'.ok <=> Len(queue) < ringBuf.size - 1
                      /\ ~rop'.ok => ringBuf' = ringBuf]_vars
    /\ [][(RingPop /\ Allocated(ringBuf) /\ isRingBufferFull(ringBuf)
                   /\ queue # << >>) =>
             /\ ~isRingBufferFull(ringBuf')
             /\ \A message \in RingMsgs : addToRingBuffer(ringBuf', message).ok]_vars

C7_Witness ==
    /\ ringBuf.size = 3
    /\ rop.op = "pop" /\ rop.ok
    /\ Len(rop.was) = ringBuf.size - 1
    /\ Len(queue) = ringBuf.size - 2
    /\ ~isRingBufferFull(ringBuf)
    /\ ringBuf.head < ringBuf.tail

\* C8 (as claimed): unallocated ring.  On a ring initialised with capacity 0
\* the ring is empty and its count is 0, a push returns false, a peek
\* returns false, a pop changes nothing, and none of them evaluates a
\* modulo by the zero capacity.
C8_UnallocatedRing ==
    ~Allocated(ringBuf) =>
        /\ isRingBufferEmpty(ringBuf)
        /\ ringBufferCount(ringBuf) = 0
        /\ ringBuf = initRingBuffer(NULL, 0)
        /\ rop.op \in {"push", "peek", "pop"} => (~rop.ok /\ ~rop.fault)

(***************************************************************************)
(* Properties of the receive direction (checked under SpecRx).             *)
(***************************************************************************)

\* the step by which a read() that got past the _isInitialized test returns
ReadReturns == pc = "r_flag" /\ pc' = "idle"

\* C9 (as claimed): RX stall and re-arm.  The RX handler running with the
\* RX ring full stores nothing, disables the RX-not-empty interrupt and
\* records it as disabled; the read() called next pops one frame and
\* returns with the interrupt enabled and recorded as enabled.
C9_StallRearm ==
    /\ [][(commonCanRxIrqHandler /\ RxRingUsable(rxRing)
                /\ isRingBufferFull(rxRing)) =>
             (rxRing' = rxRing /\ rxTaken' = rxTaken /\ ~rfneIE' /\ ~rxIrqEnabled')]_vars
    /\ [][(pc = "r_pop" /\ AppStep /\ snap.stalled) =>
             RingContents(rxRing') = Tail(RingContents(rxRing))]_vars
    /\ [][(ReadReturns /\ snap.stalled) =>
             (ret'.result /\ rfneIE' /\ rxIrqEnabled')]_vars

\* no read() has taken a frame so far, and none is in progress
NoReadYet == delivered = << >> /\ pc \notin {"r_read", "r_pop", "r_enable", "r_flag"}

\* the RX handler finds the ring full
RxStallStep ==
    commonCanRxIrqHandler /\ RxRingUsable(rxRing) /\ isRingBufferFull(rxRing)

PeekReturns == pc = "p_test" /\ pc' = "idle"

\* C11 (as claimed): a peek() called on an initialized controller with the
\* RX-not-empty interrupt enabled returns with the interrupt enabled again:
\* hardware enable bit and recorded flag both true.
C11_PeekBracket ==
    [][(PeekReturns /\ snap.irqOn) => (rfneIE' /\ rxIrqEnabled')]_vars

\* the message a read() in progress has popped and not yet returned
InFlightRx == IF pc \in {"r_enable", "r_flag"} /\ res THEN << arg >> ELSE << >>

\* C12: RX order and accounting.  In every state the messages successful
\* read() calls returned, in call order (followed by the message a read()
\* in progress has popped and is about to return), followed by the RX ring
\* contents (tail to head), are the frames the handler took from the
\* hardware FIFO, in arrival order; a peek() changes neither.
C12_RxOrder ==
    /\ [](delivered \o InFlightRx \o RingContents(rxRing) = rxTaken)
    /\ [][(pc \in {"p_read", "p_test"} /\ AppStep) =>
            UNCHANGED << rxRing, delivered, rxTaken >>]_vars
    /\ [][(pc = "p_read" /\ AppStep /\ ~isRingBufferEmpty(rxRing)) =>
            (res' /\ arg' = Head(RingContents(rxRing)))]_vars

C12_Witness ==
    /\ pc = "idle"
    /\ ret = [op |-> "peek", result |-> TRUE, msg |-> 3]
    /\ delivered = << 1, 2 >>
    /\ RingContents(rxRing) = << 3, 4 >>
    /\ rxRing.head < rxRing.tail

(***************************************************************************)
(* Properties of the calls outside the Ready state (checked under          *)
(* SpecCalls).                                                             *)
(***************************************************************************)

\* the application calls write(), read(), peek(), setBaudrate(),
\* setWorkingMode() or setTransceiverMode()
DataOrConfigCall ==
    \/ WriteCall
    \/ ReadCall
    \/ PeekCall
    \/ setBaudrate
    \/ setWorkingMode
    \/ setTransceiverMode

\* C14: on a controller that is not Ready (begin() never called, or the
\* last begin() failed) write(), read(), peek(), setBaudrate(),
\* setWorkingMode() and setTransceiverMode() return false at once and
\* change neither ring, nor an interrupt enable, nor the hardware.
C14_NotReady ==
    [][(~isInitialized /\ pc = "idle" /\ DataOrConfigCall) =>
         /\ pc' = "idle" /\ ~ret'.result
         /\ UNCHANGED << txRing, rxRing, rxIrqEnabled, nvicOn, tmeIE, rfneIE,
                         hwOn, mtf, mbFree, hwFifo, hwCfg,
                         transceiverSleepPin >>
      ]_vars

\* setTransceiverMode() has just failed on a controller with a sleep pin
\* attached and a frame left in its TX ring, whose last begin() failed
C14_Witness ==
    /\ pc = "idle" /\ ~isInitialized
    /\ ret = [op |-> "setTransceiverMode", result |-> FALSE, msg |-> ZeroMsg]
    /\ transceiverSleepPin # NO_PIN
    /\ ~isRingBufferEmpty(txRing)

(***************************************************************************)
(* Properties of the lifecycle, the ownership of the instances and the     *)
(* filters (checked under SpecLife).                                       *)
(***************************************************************************)

\* C13: after any begin(), isInitialized() equals the value begin()
\* returned; it is true only if the object owns its instance, the timing
\* solver found a configuration and the hardware initialisation succeeded;
\* a failing begin() on an uninitialized controller leaves it
\* uninitialized.
C13_Lifecycle ==
    [][\A o \in Objs, baudrate \in BeginRates, canInitOk \in BOOLEAN :
         (lret'.op = "begin" /\ Begin(o, baudrate, canInitOk)) =>
           /\ objs'[o].initialized = lret'.result
           /\ objs'[o].initialized =>
                /\ objs[o].allowed
                /\ TimingOf[baudrate].result
                /\ canInitOk
           /\ (~lret'.result /\ ~objs[o].initialized) => ~objs'[o].initialized
      ]_vars

\* a begin() that succeeded, next to a controller of the same instance
\* whose begin() could not
C13_Witness ==
    /\ lret.op = "begin" /\ lret.result
    /\ objs[lret.obj].initialized
    /\ \E o \in Objs : objs[o].live /\ ~objs[o].allowed /\ ~objs[o].initialized

\* a filter call on controller o: any setFilter overload, enableFilter,
\* disableFilter, clearAllFilters or allowReceiveAllMessages
FilterCallOn(o) ==
    \/ \E filterId \in FilterIds, canApply \in BOOLEAN :
          UserSetFilter(o, filterId, canApply)
    \/ \E filterId \in FilterIds : enableFilter(o, filterId)
    \/ \E filterId \in FilterIds : disableFilter(o, filterId)
    \/ ClearAllFiltersCall(o)
    \/ allowReceiveAllMessages(o)

\* C15: on a controller whose begin() has not succeeded, every filter call
\* returns false, programs no filter slot and changes no allocation bitmap.
C15_FiltersNeedReady ==
    [][\A o \in Objs :
         (FilterCallOn(o) /\ ~objs[o].initialized) =>
           /\ ~lret'.result
           /\ filt' = filt
           /\ \A p \in Objs : objs'[p].filtersStates = objs[p].filtersStates
      ]_vars

\* the live controllers that are the allowed owner of the instance of mask
Owners(mask) ==
    {o \in Objs : objs[o].live /\ objs[o].allowed
                  /\ InstanceMask(objs[o].device) = mask}

InstanceMasks == {INSTANCES_MASK_CAN0, INSTANCES_MASK_CAN1, INSTANCES_MASK_CAN2}

\* C16: each physical instance has at most one live allowed owner, whatever
\* the pin variants; a controller constructed while its instance is owned
\* is not allowed, stays so as long as it lives, is never initialized and
\* its begin() always returns false.
C16_SingleOwner ==
    /\ [](\A mask \in InstanceMasks : Cardinality(Owners(mask)) <= 1)
    /\ [](\A o \in Objs :
            (objs[o].live /\ ~objs[o].allowed) => ~objs[o].initialized)
    /\ [][\A o \in Objs :
            /\ \A device \in Devices :
                 (/\ Owners(InstanceMask(device)) # {}
                  /\ lret'.op = "construct"
                  /\ Construct(o, device)) => ~objs'[o].allowed
            /\ (objs[o].live /\ objs'[o].live)
                 => objs'[o].allowed = objs[o].allowed
            /\ \A baudrate \in BeginRates, canInitOk \in BOOLEAN :
                 (/\ ~objs[o].allowed
                  /\ lret'.op = "begin"
                  /\ Begin(o, baudrate, canInitOk)) => ~lret'.result
         ]_vars

\* begin() has just failed on a controller built for an instance that a
\* controller of the other pin variant owns
C16_Witness ==
    /\ lret.op = "begin" /\ ~lret.result
    /\ ~objs[lret.obj].allowed /\ ~objs[lret.obj].initialized
    /\ \E p \in Objs :
          /\ p \in Owners(InstanceMask(objs[lret.obj].device))
          /\ objs[p].device # objs[lret.obj].device

\* C17: after the owning controller of an instance is destroyed the
\* instance's ownership bit is clear, and the next controller constructed
\* for the instance is its allowed owner; destroying a controller that is
\* not the owner leaves the bitmap as it is, the live owner's bit included.
C17_OwnershipRelease ==
    /\ [][\A o \in Objs :
            Destroy(o) =>
              IF objs[o].allowed
              THEN InstanceMask(objs[o].device) \notin instances'
              ELSE instances' = instances
         ]_vars
    /\ [][\A o \in Objs, device \in Devices :
            (Construct(o, device) /\ InstanceMask(device) \notin instances)
               => (objs'[o].allowed /\ InstanceMask(device) \in instances')
         ]_vars
    /\ [](\A mask \in InstanceMasks :
            (Owners(mask) # {}) <=> (mask \in instances))

\* after the owner of an instance was destroyed, beside a live controller
\* that was refused the instance, a new controller has become its owner
C17_Witness ==
    /\ lret.op = "construct" /\ lret.result
    /\ objs[lret.obj].allowed
    /\ \E p \in Objs :
          /\ objs[p].live /\ ~objs[p].allowed
          /\ InstanceMask(objs[p].device) = InstanceMask(objs[lret.obj].device)

\* C18: when the owning CAN1 controller is destroyed the filter split point
\* returns to the unset value, so that the filter range of CAN0 extends to
\* the last bank again; the destruction of any other controller leaves the
\* split point unchanged.
C18_SplitReset ==
    [][\A o \in Objs :
         Destroy(o) =>
           IF objs[o].allowed /\ objs[o].device \in Can1Devices
           THEN /\ can1StartFilterId' = CAN1_START_UNSET
                /\ \A device \in Can0Devices :
                     getMaxFilterId(device, can1StartFilterId') = MAX_BANK
           ELSE can1StartFilterId' = can1StartFilterId
      ]_vars

\* the owning CAN1 controller has just been destroyed beside a live owner
\* of CAN0, which has the last bank in its range again
C18_Witness ==
    /\ lret.op = "destroy" /\ lret.result /\ lret.device \in Can1Devices
    /\ can1StartFilterId = CAN1_START_UNSET
    /\ \E p \in Owners(INSTANCES_MASK_CAN0) :
          isFilterAvailable(objs[p], MAX_BANK, can1StartFilterId)

\* slot filterId lies outside the current range of controller o
OutOfRange(o, filterId) ==
    \/ filterId < objs[o].firstFilterId
    \/ filterId > getMaxFilterId(objs[o].device, can1StartFilterId)

\* C19: for a slot outside the calling instance's current range
\* [firstFilterId, maxFilterId], every setFilter overload and enableFilter
\* return false and change no filter register, no filter enable bit and no
\* allocation bitmap.
C19_FilterRange ==
    [][\A o \in Objs, filterId \in FilterIds :
         (/\ OutOfRange(o, filterId)
          /\ \/ \E canApply \in BOOLEAN : UserSetFilter(o, filterId, canApply)
             \/ enableFilter(o, filterId))
         => (~lret'.result /\ filt' = filt /\ objs' = objs)
      ]_vars

\* enableFilter has just failed on a slot the owner allocated while the
\* slot was in its range, and which the range no longer holds
C19_Witness ==
    /\ lret.op = "enableFilter" /\ ~lret.result
    /\ objs[lret.obj].allowed
    /\ lret.slot \in objs[lret.obj].filtersStates
    /\ OutOfRange(lret.obj, lret.slot)

\* C20: enableFilter(slot) fails and enables nothing for every slot that no
\* setFilter or allowReceiveAllMessages call of the controller has
\* configured, whatever constructions, begin(), clearAllFilters() and
\* filter calls on other slots came before.
C20_EnableNeedsConfig ==
    [][\A o \in Objs, filterId \in FilterIds :
         (enableFilter(o, filterId) /\ filterId \notin objs[o].configured)
            => (~lret'.result /\ filt'.fw = filt.fw)
      ]_vars

\* slot filterId is disabled in the filter block of controller o
SlotDisabled(o, filterId) ==
    filterId \notin filt.fw[FilterBlock(objs[o].device)]

\* C21 as stated: for a slot in the instance's range that is already
\* disabled, disableFilter returns success and changes no filter enable
\* bit, no filter register and no allocation bitmap, and called again at
\* once it returns success and leaves the state of the first call, the
\* filter lock included.
C21_DisableIdempotent ==
    [][\A o \in Objs, filterId \in FilterIds :
         (/\ ~OutOfRange(o, filterId)
          /\ SlotDisabled(o, filterId)
          /\ lret'.op = "disableFilter"
          /\ disableFilter(o, filterId))
         => /\ lret'.result
            /\ filt'.fw = filt.fw /\ filt'.cfg = filt.cfg /\ objs' = objs
            /\ (lret = [lret' EXCEPT !.result = TRUE]) => filt' = filt
      ]_vars

\* C21 for a controller that owns its instance: the same, the slot being
\* in the range of an owner.
C21_DisableIdempotent_Owner ==
    [][\A o \in Objs, filterId \in FilterIds :
         (/\ objs[o].allowed
          /\ ~OutOfRange(o, filterId)
          /\ SlotDisabled(o, filterId)
          /\ lret'.op = "disableFilter"
          /\ disableFilter(o, filterId))
         => /\ lret'.result
            /\ filt'.fw = filt.fw /\ filt'.cfg = filt.cfg /\ objs' = objs
            /\ (lret = [lret' EXCEPT !.result = TRUE]) => filt' = filt
      ]_vars

\* an owner has just disabled, with success, a slot of its range that was
\* never programmed nor enabled since the reset of the filters
C21_Witness ==
    /\ lret.op = "disableFilter" /\ lret.result /\ nCalls >= 3
    /\ objs[lret.obj].allowed
    /\ ~OutOfRange(lret.obj, lret.slot)
    /\ SlotDisabled(lret.obj, lret.slot)
    /\ filt.cfg[lret.slot] = "reset"
    /\ lret.slot \notin objs[lret.obj].filtersStates
    /\ ~filt.fld[FilterBlock(objs[lret.obj].device)]

\* C22: setCan1StartFilterId called on a controller of CAN0 or CAN2, or on
\* a controller that does not own its instance, returns false and leaves
\* the global split point, the firstFilterId of every controller and the
\* hardware split register unchanged.
C22_SplitOwnerOnly ==
    [][\A o \in Objs, filterId \in FilterIds :
         (/\ objs[o].device \notin Can1Devices \/ ~objs[o].allowed
          /\ lret'.op = "setCan1StartFilterId"
          /\ setCan1StartFilterId(o, filterId))
         => /\ ~lret'.result
            /\ can1StartFilterId' = can1StartFilterId
            /\ \A p \in Objs : objs'[p].firstFilterId = objs[p].firstFilterId
            /\ filt' = filt
      ]_vars

\* setCan1StartFilterId has just failed on a CAN1 controller that does not
\* own CAN1, after the owner moved the split point to the last bank
C22_Witness ==
    /\ lret.op = "setCan1StartFilterId" /\ ~lret.result
    /\ lret.slot # MAX_BANK
    /\ objs[lret.obj].device \in Can1Devices /\ ~objs[lret.obj].allowed
    /\ can1StartFilterId = MAX_BANK /\ filt.split = MAX_BANK
    /\ \E p \in Owners(INSTANCES_MASK_CAN1) : objs[p].firstFilterId = MAX_BANK

\* after a step, bank b is as clearAllFilters leaves a slot of the range
\* (disabled, id and mask zero) or, outside the range, as it was
ClearedOrKept(o, b) ==
    LET blk == FilterBlock(objs[o].device)
    IN  IF /\ b >= objs[o].firstFilterId
           /\ b <= getMaxFilterId(objs[o].device, can1StartFilterId)
        THEN filt'.cfg[b] = "clear" /\ b \notin filt'.fw[blk]
        ELSE /\ filt'.cfg[b] = filt.cfg[b]
             /\ (b \in filt'.fw[blk]) = (b \in filt.fw[blk])

Baudrates ==
    { 1000000, 800000, 750000, 500000, 250000, 200000, 150000, 125000, 100000,
      83333, 75000, 62500, 50000, 40000, 33333, 25000, 20000, 15000, 10000,
      5000 }

\* bit rates the enum's underlying type holds above HW_MAX_BAUDRATE
RatesAboveMax == { 1000001, 2000000 }

\* APB1 clocks of the GD32 parts, in Hz
Apb1Clocks ==
    { 8000000, 24000000, 30000000, 36000000, 42000000, 45000000, 48000000,
      54000000, 60000000 }

InitSolver ==
    /\ Constructed(0, 0)
    /\ RingUnused
    /\ NoObjects
    /\ btIn \in [apb1 : Apb1Clocks, baudrate : Baudrates \cup RatesAboveMax]
    /\ btOut = NoBtOut

\* bool result = calculateCANBTValues(baudrate, baudpsc, bs1, bs2, sjw).
\* The division by zero of line 729 either yields a quotient the caller
\* never reads (the result is false) or raises the divide-by-zero fault.
Solve ==
    /\ ~btOut.done
    /\ LET out == calculateCANBTValues(btIn.baudrate, btIn.apb1)
       IN  \E fault \in (IF out.divZero THEN BOOLEAN ELSE {FALSE}) :
              btOut' = [done |-> TRUE, result |-> out.result /\ ~fault,
                        divZero |-> out.divZero, fault |-> fault,
                        timeQuanta |-> out.timeQuanta, baudpsc |-> out.baudpsc,
                        bs1 |-> out.bs1, bs2 |-> out.bs2, sjw |-> out.sjw]
    /\ UNCHANGED << btIn, ctlVars, ringVars, lifeVars >>

NextSolver == Solve

SpecSolver == InitSolver /\ [][NextSolver]_vars

\* the quantum counts the inner loop tries: 16 - 8 up to 16 + 2
MinQuanta == BASE_QUANTA - 8
MaxQuanta == BASE_QUANTA + 2

\* the quantum counts of the search range that divide the clock exactly
ExactQuanta(apb1, baudrate) ==
    { quanta \in MinQuanta .. MaxQuanta : apb1 % (baudrate * quanta) = 0 }

\* The segment lengths in quanta that the returned values stand for: bs1 and
\* bs2 go to can_init as time_segment_1 and time_segment_2, whose encoding
\* is the length less one; baudpsc is the prescaler itself.
phaseSeg1 == btOut.bs1 + 1
phaseSeg2 == btOut.bs2 + 1
TotalQuanta == 1 + phaseSeg1 + phaseSeg2

\* the sample point (1 + phaseSeg1) / T and 87.5 %, both times 1000 * T
SamplePointOff(seg1, quanta) == Abs((1000 * (1 + seg1)) - (875 * quanta))

C25_BeginAboveMax ==
    [][\A baudrate \in BeginRates, canInitOk \in BOOLEAN :
         (/\ baudrate > HW_MAX_BAUDRATE
          /\ pc = "idle"
          /\ BeginCall
          /\ BeginWith(baudrate, canInitOk))
         => /\ pc' = "idle"
            /\ ret'.op = "begin" /\ ~ret'.result
            /\ hwCfg' = hwCfg
            /\ ~isInitialized']_vars

\* a begin() above the maximum has just failed on a controller that an
\* earlier begin() had started: the earlier timing is still programmed
C25_Witness ==
    /\ pc = "idle"
    /\ ret.op = "begin" /\ ~ret.result
    /\ ~isInitialized
    /\ hwCfg.mode = "NORMAL"
    /\ hwCfg.bt = BtOf(TimingOf[500000])

\* C26: setBaudrate returns false and leaves the bit timing register
\* unchanged whenever the rate is above 1,000,000, the solver finds no timing
\* or the switch to initialization mode fails; it returns true only if the
\* new timing was written and the controller is back in normal mode.
C26_SetBaudrateSafe ==
    [][\A baudrate \in SetRates, reachedInit \in BOOLEAN, reachedNormal \in BOOLEAN :
         (/\ pc = "idle"
          /\ ret'.op = "setBaudrate"
          /\ setBaudrate
          /\ SetBaudrateWith(baudrate, reachedInit, reachedNormal))
         => /\ (\/ baudrate > HW_MAX_BAUDRATE
                \/ ~TimingOf[baudrate].result
                \/ ~reachedInit)
               => (~ret'.result /\ hwCfg'.bt = hwCfg.bt)
            /\ ret'.result
               => /\ hwCfg'.bt = calculateCANBTRegValue(baudrate)
                  /\ hwCfg'.mode = "NORMAL"]_vars

BasePhaseSeg1(timeQuanta) ==
    ((PERCENT_POINT * timeQuanta) - MULTIPLIER) \div MULTIPLIER

\* C28: the split the solver returns gives the sample point (1 + phaseSeg1) / T
\* that is the closer to 87.5 % of the two neighbouring allocations, the
\* un-nudged phase segment 1 and that plus one quantum.
C28_SamplePointClosest ==
    (btOut.done /\ btOut.result)
    => LET base == BasePhaseSeg1(btOut.timeQuanta)
       IN  /\ phaseSeg1 \in {base, base + 1}
           /\ \A seg1 \in {base, base + 1} :
                 SamplePointOff(phaseSeg1, btOut.timeQuanta)
                    <= SamplePointOff(seg1, btOut.timeQuanta)

\* C29: when no quantum count divides the clock even after lowering it by up
\* to 1000 Hz the solver returns failure and never divides by a quantum count
\* of zero on the way.
C29_FailureWellDefined ==
    (/\ btOut.done
     /\ btIn.baudrate <= HW_MAX_BAUDRATE
     /\ \A delta \in 0 .. FREQ_MAX_DELTA :
           ExactQuanta(btIn.apb1 - delta, btIn.baudrate) = {})
    => (~btOut.result /\ ~btOut.divZero /\ ~btOut.fault)

\* availableForWrite(): the free slots it counts in the TX ring plus the
\* mailboxes whose TME flag is set in CAN_TSTAT
availableForWrite(ring, free) ==
    (IF ring.size # 0 THEN ring.size - ringBufferCount(ring) ELSE 0) + free

\* C30: with no interrupt running and no mailbox freeing up, exactly
\* availableForWrite() consecutive write() calls return true and the next one
\* returns false: a write() succeeds exactly when availableForWrite() was
\* above zero at the call, and a success lowers it by one.
C30_AvailableForWrite ==
    [][(WriteReturns /\ quiet)
       => LET writable == availableForWrite(snap.ring, snap.free)
          IN  /\ ret'.result <=> (writable > 0)
              /\ ret'.result => availableForWrite(txRing', mbFree') = writable - 1]_vars

(***************************************************************************)
(* getError(): the error register CAN_ERR is read once; its value is the   *)
(* peripheral's and is drawn afresh at every call.                         *)
(***************************************************************************)
\* CAN::Error: the bus states, in bits 3..4 of the byte getError returns
ERROR_NONE    == 0
ERROR_WARNING == 8
ERROR_PASSIVE == 16
ERROR_BUS_OFF == 24

BUS_ERROR_MASK  == 24
DATA_ERROR_MASK == 7

\* GET_BITS(CAN_ERR(_deviceBase), 0U, 6U): WERR, PERR, BOERR in bits 0..2,
\* bit 3 reserved, the error number ERRN in bits 4..6
CanErrValues == 0 .. 127

Bit(value, n) == (value \div (2 ^ n)) % 2

SeverityPassiveFirst(tempVal) ==
    IF Bit(tempVal, 1) # 0 THEN ERROR_PASSIVE
    ELSE IF Bit(tempVal, 2) # 0 THEN ERROR_BUS_OFF
    ELSE ERROR_WARNING

\* the if / else ladder over BUS_OFF_MASK and PASSIVE_MASK
Severity(tempVal) ==
    IF Bit(tempVal, 2) # 0 THEN ERROR_BUS_OFF
    ELSE IF Bit(tempVal, 1) # 0 THEN ERROR_PASSIVE
    ELSE ERROR_WARNING

\* the byte getError returns; tempVal >> DATA_ERR_SHIFT is below 8 and the
\* bus states are multiples of 8, so the bitwise or is a sum
getError(initialized, canErr) ==
    IF initialized /\ canErr # 0
    THEN (canErr \div 16) + Severity(canErr)
    ELSE ERROR_NONE

\* getError() while CAN_ERR reads canErr; ret.msg carries the byte returned
GetErrorWith(canErr) ==
    LET result == getError(isInitialized, canErr)
    IN  Return("getError", result # ERROR_NONE, result)

GetError ==
    /\ pc = "idle"
    /\ \E canErr \in CanErrValues : GetErrorWith(canErr)
    /\ UNCHANGED << objVars, nvicOn, hwOn, txHwVars, rxHwVars, histVars,
                    cfgVars, ringVars, lifeVars, solVars >>

NextErr ==
    \/ BeginCall
    \/ BeginFinish
    \/ GetError

SpecErr == Init /\ [][NextErr]_vars

\* C31: getError() returns None when the controller is not initialized or no
\* bit of the error register is set; otherwise the low bits carry the
\* hardware error number and the bus state field is BusOff when the bus-off
\* bit is set, Passive when the passive bit is set without bus-off, and
\* Warning otherwise.
C31_GetError ==
    [][\A canErr \in CanErrValues :
         (pc = "idle" /\ ret'.op = "getError" /\ GetErrorWith(canErr))
         => LET value  == ret'.msg
                busOff == Bit(canErr, 2) = 1
                passive == Bit(canErr, 1) = 1
            IN  IF ~isInitialized \/ canErr = 0
                THEN value = ERROR_NONE
                ELSE /\ value % 8 = canErr \div 16
                     /\ value - (value % 8) \in {ERROR_WARNING, ERROR_PASSIVE, ERROR_BUS_OFF}
                     /\ busOff => value - (value % 8) = ERROR_BUS_OFF
                     /\ (passive /\ ~busOff) => value - (value % 8) = ERROR_PASSIVE
                     /\ (~passive /\ ~busOff) => value - (value % 8) = ERROR_WARNING]_vars

\* an initialized controller has just reported bus-off with a CRC error
\* (error number 6): only a register with the bus-off bit set gives 30
C31_Witness ==
    /\ isInitialized /\ pc = "idle"
    /\ ret.op = "getError" /\ ret.msg = 6 + ERROR_BUS_OFF

(***************************************************************************)
(* The TX side with the interrupt raised, as well, by a free mailbox, and  *)
(* with the fairness the TX liveness is stated under: a call in progress   *)
(* runs on, a busy mailbox becomes free, and the handler runs while        *)
(* CAN_INT_TME is enabled and a mailbox is free.                           *)
(***************************************************************************)
NextTxLive ==
    \/ NextTx
    \/ TxIrqOnMailboxEmpty

FairTx ==
    /\ WF_vars(BeginFinish)
    /\ WF_vars(WriteDirect)
    /\ WF_vars(WriteAdd)
    /\ WF_vars(WriteArm)
    /\ WF_vars(MailboxComplete)
    /\ WF_vars(TxIrqOnMailboxEmpty)

SpecTxLive == Init /\ [][NextTxLive]_vars /\ FairTx

\* the messages a sequence holds
Range(seq) == { seq[i] : i \in 1 .. Len(seq) }

Queued(message) == message \in Range(RingContents(txRing))

\* C32: on an initialized controller every message enqueued in the TX ring
\* is eventually handed to a hardware mailbox, and once write() has returned
\* a non-empty TX ring is never left with the TME interrupt disabled.
C32_TxLiveness ==
    /\ [](\A message \in 1 .. MaxWrites :
             (isInitialized /\ Queued(message))
                => <>(message \in Range(hwSent) \/ ~isInitialized))
    /\ []((isInitialized /\ pc = "idle" /\ ~isRingBufferEmpty(txRing)) => tmeIE)

\* a message that went through the ring has reached a mailbox
C32_Witness ==
    /\ isInitialized /\ pc = "idle"
    /\ txDrained
    /\ isRingBufferEmpty(txRing)
    /\ Len(hwSent) > NUM_MAILBOXES

(***************************************************************************)
(* The RX side under an application that starts the controller and then    *)
(* polls it: peek(), and read() after each peek() that returned a message. *)
(***************************************************************************)
\* the last call was a peek() that returned a message
PeekSucceeded == ret.op = "peek" /\ ret.result

PollBegin == ~isInitialized /\ BeginCall

PollPeek == ~PeekSucceeded /\ PeekCall

PollRead == PeekSucceeded /\ ReadCall

NextRxPoll ==
    \/ PollBegin
    \/ BeginFinish
    \/ PollPeek
    \/ PeekCopy
    \/ PeekFinish
    \/ PollRead
    \/ ReadCopy
    \/ ReadPop
    \/ ReadEnable
    \/ ReadReturn
    \/ commonCanRxIrqHandler
    \/ FrameArrive

\* the application keeps polling, and the RX handler runs while
\* CAN_INT_RFNE0 is enabled and FIFO 0 holds a frame
FairRxPoll ==
    /\ WF_vars(BeginFinish)
    /\ WF_vars(PollPeek) /\ WF_vars(PeekCopy) /\ WF_vars(PeekFinish)
    /\ WF_vars(PollRead) /\ WF_vars(ReadCopy) /\ WF_vars(ReadPop)
    /\ WF_vars(ReadEnable) /\ WF_vars(ReadReturn)
    /\ WF_vars(commonCanRxIrqHandler)

SpecRxPoll == Init /\ [][NextRxPoll]_vars /\ FairRxPoll

\* C33: on an initialized controller with an allocated RX ring every frame
\* pending in the hardware FIFO is eventually returned by read(), for an
\* application that polls with peek() and reads after each successful peek().
C33_RxLiveness ==
    [](\A frame \in 1 .. MaxFrames :
          (isInitialized /\ RxRingUsable(rxRing) /\ frame \in Range(hwFifo))
             => <>(frame \in Range(delivered)))

\* C34: peek() never changes the RX ring, whatever runs while it is in
\* progress; a peek() called right after a successful peek() returns the
\* same message; and a read() called right after a successful peek()
\* returns the peeked message, whatever the RX handler and the bus did in
\* between.
C34_PeekStable ==
    /\ [][(pc \in {"p_read", "p_test"} \/ (pc = "idle" /\ pc' = "p_read"))
            => rxRing' = rxRing]_vars
    /\ [][(PeekReturns /\ PeekSucceeded)
            => (ret'.result /\ ret'.msg = ret.msg)]_vars
    /\ [][(ReadReturns /\ PeekSucceeded)
            => (ret'.result /\ ret'.msg = ret.msg)]_vars

\* a read() called after a successful peek() is about to return the peeked
\* message, frames having arrived meanwhile and another message being queued
\* behind it
C34_Witness ==
    /\ pc = "r_flag"
    /\ PeekSucceeded
    /\ res /\ arg = ret.msg
    /\ ~isRingBufferEmpty(rxRing)
    /\ hwFifo # << >>

\* C35: for an allocated ring of capacity C, after any sequence of pushes,
\* peeks and pops, failed ones included, head and tail are in 0 .. C - 1,
\* the count is (head - tail) mod C and at most C - 1, the ring is empty
\* exactly when the count is 0 and full exactly when the count is C - 1.
C35_RingIndex ==
    ringBuf.size > 0
    => /\ ringBuf.head \in 0 .. ringBuf.size - 1
       /\ ringBuf.tail \in 0 .. ringBuf.size - 1
       /\ ringBufferCount(ringBuf)
             = (ringBuf.head - ringBuf.tail + ringBuf.size) % ringBuf.size
       /\ ringBufferCount(ringBuf) <= ringBuf.size - 1
       /\ isRingBufferEmpty(ringBuf) <=> (ringBufferCount(ringBuf) = 0)
       /\ isRingBufferFull(ringBuf) <=> (ringBufferCount(ringBuf) = ringBuf.size - 1)

\* a push has just failed on a full ring of capacity 3 whose head has
\* wrapped behind its tail
C35_Witness ==
    /\ ringBuf.size = 3
    /\ ringBuf.head < ringBuf.tail
    /\ isRingBufferFull(ringBuf)
    /\ rop.op = "push" /\ ~rop.ok

\* C36: constructing a controller for an instance that is already owned
\* changes none of the shared state the owner relies on: the rings the
\* interrupt handlers of the instance use remain the owner's, and the global
\* filter split point keeps its value.
C36_NonOwnerConstructFrame ==
    [][\A o \in Objs, device \in Devices :
         (/\ lret'.op = "construct"
          /\ InstanceMask(device) \in instances
          /\ Construct(o, device))
         => /\ \A p \in Objs \ {o} : objs'[p].irqBound = objs[p].irqBound
            /\ can1StartFilterId' = can1StartFilterId]_vars

(***************************************************************************)
(* The filter split between CAN0 and CAN1: the application has constructed *)
(* its CAN1 controller, and goes on constructing, beginning and destroying *)
(* controllers and moving the first bank of CAN1.                          *)
(***************************************************************************)
\* the state after the construction of a CAN1 controller as the first object
InitSplit ==
    /\ Constructed(0, 0)
    /\ RingUnused
    /\ SolverUnused
    /\ objs = [o \in Objs |->
                 IF o = 1
                 THEN [live |-> TRUE, device |-> "CAN_1_DEFAULT",
                       allowed |-> InstanceFree(INSTANCES_MASK_CAN1, {}),
                       initialized |-> FALSE, filtersStates |-> {},
                       firstFilterId |-> DEFAULT_CAN1_START_FILTER_ID,
                       configured |-> {}, irqBound |-> TRUE]
                 ELSE NoObject]
    /\ instances = {INSTANCES_MASK_CAN1}
    /\ can1StartFilterId = DEFAULT_CAN1_START_FILTER_ID
    /\ filt = FiltersReset
    /\ lret = [op |-> "construct", obj |-> 1, result |-> TRUE, slot |-> -1]
    /\ nCalls = 0

NextSplit ==
    \/ \E o \in Objs, device \in Devices : Construct(o, device)
    \/ \E o \in Objs : Destroy(o)
    \/ \E o \in Objs, baudrate \in BeginRates, canInitOk \in BOOLEAN :
          Begin(o, baudrate, canInitOk)
    \/ \E o \in Objs, filterId \in FilterIds : setCan1StartFilterId(o, filterId)

SpecSplit == InitSplit /\ [][NextSplit]_vars

\* the slots [firstFilterId, maxFilterId] of a controller
FilterRange(obj, can1Start) ==
    obj.firstFilterId .. getMaxFilterId(obj.device, can1Start)

\* a live controller that owns its instance
Owns(obj) == obj.live /\ obj.allowed

\* C37: whenever an owning CAN0 controller and an owning CAN1 controller are
\* both alive, their slot ranges [firstFilterId, maxFilterId] have no slot
\* in common
C37_RangesDisjoint ==
    \A o \in Objs, p \in Objs :
       (/\ Owns(objs[o]) /\ objs[o].device \in Can0Devices
        /\ Owns(objs[p]) /\ objs[p].device \in Can1Devices)
       => FilterRange(objs[o], can1StartFilterId)
             \cap FilterRange(objs[p], can1StartFilterId) = {}

(***************************************************************************)
(* The destructor of the controller that owns its instance, statement by   *)
(* statement: the interrupt handlers run between its statements as they do *)
(* between those of any other call.  The controller is the CAN0 object 1.  *)
(***************************************************************************)
\* the state after the construction of the CAN0 controller, any capacities
InitTeardown ==
    /\ \E rxQueueSize \in RingSizes, txQueueSize \in RingSizes :
          Constructed(rxQueueSize, txQueueSize)
    /\ RingUnused
    /\ SolverUnused
    /\ objs = [o \in Objs |->
                 IF o = 1
                 THEN [live |-> TRUE, device |-> "CAN_0_DEFAULT",
                       allowed |-> InstanceFree(INSTANCES_MASK_CAN0, {}),
                       initialized |-> FALSE, filtersStates |-> {},
                       firstFilterId |-> MIN_BANK,
                       configured |-> {}, irqBound |-> TRUE]
                 ELSE NoObject]
    /\ instances = {INSTANCES_MASK_CAN0}
    /\ can1StartFilterId = CAN1_START_UNSET
    /\ filt = FiltersReset
    /\ lret = [op |-> "construct", obj |-> 1, result |-> TRUE, slot |-> -1]
    /\ nCalls = 0

\* the positions of the destructor after delete[] _rxBuffer and
\* delete[] _txBuffer: the storage of both rings has been released, and
\* buffer of either ring still holds its address
AfterDelete == {"d_detach", "d_deinit", "d_nvic", "d_release", "gone"}

Released == pc \in AfterDelete

\* the statements of the destructor leave the members of the object alone
DtorFrame ==
    UNCHANGED << objVars, arg, res, snap, quiet, ret, histVars, ringVars,
                 solVars, can1StartFilterId, lret, nCalls >>

\* ~GD32CAN() is entered: if (true == _isInstanceAllowed), and the device is
\* not CAN1
DtorCall ==
    /\ pc = "idle"
    /\ objs[1].live /\ objs[1].allowed
    /\ pc' = "d_delete"
    /\ DtorFrame
    /\ UNCHANGED << nvicOn, hwOn, txHwVars, rxHwVars, cfgVars, objs,
                    instances, filt >>

\* delete[] _rxBuffer; delete[] _txBuffer;
DtorDelete ==
    /\ pc = "d_delete"
    /\ pc' = "d_detach"
    /\ DtorFrame
    /\ UNCHANGED << nvicOn, hwOn, txHwVars, rxHwVars, cfgVars, objs,
                    instances, filt >>

\* detachTransceiverSleepPin();
DtorDetach ==
    /\ pc = "d_detach"
    /\ pc' = "d_deinit"
    /\ hwCfg' = IF NO_PIN # transceiverSleepPin
                THEN [hwCfg EXCEPT !.pinLevel = "INPUT"] ELSE hwCfg
    /\ DtorFrame
    /\ UNCHANGED << nvicOn, hwOn, txHwVars, rxHwVars, transceiverSleepPin,
                    objs, instances, filt >>

\* canDeinit(): the reset of the peripheral, which clears its interrupt
\* enables, its mailboxes and its FIFO
DtorDeinit ==
    /\ pc = "d_deinit"
    /\ pc' = "d_nvic"
    /\ hwOn' = FALSE
    /\ tmeIE' = FALSE /\ rfneIE' = FALSE
    /\ mtf' = FALSE /\ mbFree' = NUM_MAILBOXES
    /\ hwFifo' = << >>
    /\ hwCfg' = [hwCfg EXCEPT !.mode = "SLEEP", !.bt = BtReset]
    /\ filt' = canDeinit(filt, objs[1].device)
    /\ DtorFrame
    /\ UNCHANGED << nvicOn, transceiverSleepPin, objs, instances >>

\* nvicConfig(CAN::State::DISABLE); gpioConfig(CAN::State::DISABLE);
DtorNvic ==
    /\ pc = "d_nvic"
    /\ pc' = "d_release"
    /\ nvicOn' = FALSE
    /\ DtorFrame
    /\ UNCHANGED << hwOn, txHwVars, rxHwVars, cfgVars, objs, instances, filt >>

\* instances &= ~_instance_mask; and the object is gone
DtorRelease ==
    /\ pc = "d_release"
    /\ pc' = "gone"
    /\ instances' = InstancesAfterDestroy(instances,
                        InstanceMask(objs[1].device), objs[1].allowed)
    /\ objs' = [objs EXCEPT ![1] = NoObject]
    /\ DtorFrame
    /\ UNCHANGED << nvicOn, hwOn, txHwVars, rxHwVars, cfgVars, filt >>

NextTeardown ==
    \/ PollBegin
    \/ BeginFinish
    \/ WriteCall
    \/ WriteDirect
    \/ WriteAdd
    \/ WriteArm
    \/ attachTransceiverSleepPin
    \/ commonCanTxIrqHandler
    \/ commonCanRxIrqHandler
    \/ MailboxComplete
    \/ FrameArrive
    \/ DtorCall
    \/ DtorDelete
    \/ DtorDetach
    \/ DtorDeinit
    \/ DtorNvic
    \/ DtorRelease

SpecTeardown == InitTeardown /\ [][NextTeardown]_vars

\* a handler of the instance can be entered
IrqSourcesOn == nvicOn /\ (rfneIE \/ tmeIE)

\* the RX handler stores a frame in the ring's storage
RxHandlerWrites ==
    /\ nvicOn /\ rfneIE /\ hwFifo # << >>
    /\ RxRingUsable(rxRing) /\ ~isRingBufferFull(rxRing)
    /\ rxTaken' # rxTaken

\* the TX handler reads a message from the ring's storage
TxHandlerReads ==
    /\ nvicOn /\ tmeIE /\ mtf
    /\ txRing.buffer # NULL /\ ~isRingBufferEmpty(txRing)
    /\ mtf' = FALSE

\* C38: during the destruction of an owning controller the interrupt
\* sources of its instance are off once the storage of the rings has been
\* released, no handler run reads or writes released storage, and the
\* ownership bit is cleared only when the interrupts are disabled and the
\* peripheral is deinitialised
C38_TeardownOrder ==
    /\ [](Released => ~IrqSourcesOn)
    /\ [][(RxHandlerWrites \/ TxHandlerReads) => ~Released]_vars
    /\ [](INSTANCES_MASK_CAN0 \notin instances => (~nvicOn /\ ~hwOn))

\* the guard of the RX handler holds: it is entered for the frame at the
\* head of FIFO 0
RxIrqRaised == nvicOn /\ rfneIE /\ hwFifo # << >>

\* C39: every run of the RX interrupt handler takes exactly one frame out of
\* FIFO 0 or disables the RX-not-empty interrupt, whatever the capacity of
\* the RX ring, 0 included
C39_RxHandlerProgress ==
    [][(RxIrqRaised /\ commonCanRxIrqHandler)
          => (hwFifo' = Tail(hwFifo) \/ ~rfneIE')]_vars

=============================================================================
